---- MODULE Spec2Model ----
(***************************************************************************)
(* Auto-Email-Responder: the batch workflow of workflow.py (a LangGraph     *)
(* graph of seven nodes threaded with one state dict) and the two-tier      *)
(* cache of cache_manager.py, the intent classifier and policy retriever of  *)
(* retriever_chain.py and the response generator of llm_response_chain.py.  *)
(*                                                                          *)
(* The mail transport, the policy retriever and the response generator are  *)
(* collaborators of the workflow: each call is modelled by the outcomes the  *)
(* call site can observe (a returned value or a raised exception).           *)
(* Optional values are sequences: None is <<>> and a present x is <<x>>.     *)
(***************************************************************************)
EXTENDS Integers, Sequences, FiniteSets, TLC

VARIABLES
    graph,          \* EmailWorkflow.graph is compiled (not None)
    node,           \* the graph node to run next, or "idle" / "END" / "raised" / "returned"
    state,          \* the EmailProcessingState dict threaded through the nodes
    result,         \* what process_emails returned (None while the run is going)
    visited,        \* history: the nodes run so far, each with the email current after it
    calls,          \* history: the collaborator calls made so far, with their outcomes
    now,            \* datetime.now(), in hours
    memory_cache,   \* CacheManager.memory_cache: cache key -> {value, timestamp}
    redis_client,   \* CacheManager.redis_client is set (Redis configured and connected)
    redis_up,       \* the Redis server answers; when FALSE every client call raises
    redis_store,    \* what the Redis server holds: cache key -> {data, expire_at}
    written,        \* history: per cache key, the last set since the last clear_cache
    ret,            \* history: the last cache operation, when it ran and what it returned
    llm,            \* IntentClassifier.llm is set (an API key is configured)
    retriever,      \* PolicyRetriever.retriever is set (the index was built)
    request,        \* the call made on the classifier or retriever, with its arguments
    rret,           \* what that call returned (None until it has)
    chain,          \* LLMResponseChain.chain is set (model and prompt were set up)
    gret,           \* history: the last generate_response call and what it returned
    running         \* EmailResponderApp.running

wfvars == <<graph, node, state, result, visited, calls, running>>
cachevars == <<now, memory_cache, redis_client, redis_up, redis_store, written, ret>>
chainvars == <<llm, retriever, request, rret, chain, gret>>
vars == <<wfvars, cachevars, chainvars>>

None == <<>>
Some(x) == <<x>>

\* Python truthiness of an Optional[str]
Truthy(o) == o # None /\ o[1] # ""

(***************************************************************************)
(* Bounds                                                                   *)
(***************************************************************************)
MaxEmails == 2
MaxTime == 36       \* the clock stops here
TickHours == 12     \* granularity of the clock

(***************************************************************************)
(* Collaborator outcomes                                                    *)
(***************************************************************************)
\* An email as the nodes read it: message_id, subject and sender_email are the
\* attributes the workflow uses to select, log and address it.
EmailData(i) == [message_id |-> i, subject |-> i, sender_email |-> i]

\* fetch_unread_emails(limit=...) raises or returns a list of at most MaxEmails
\* emails. (GmailFetcher.fetch_unread_emails names its parameter max_results,
\* so with that transport the keyword call raises; a transport that accepts the
\* call returns a list.)
FetchOutcomes ==
    {[raised |-> TRUE, emails |-> <<>>]} \cup
    {[raised |-> FALSE, emails |-> [i \in 1..n |-> EmailData(i)]] : n \in 0..MaxEmails}

\* mark_as_read(message_id) returns or raises; the node ignores which.
MarkOutcomes == {"ok", "raise"}

\* retrieve_relevant_policies returns (documents, intent) or raises.
RetrieveOutcomes ==
    { [raised |-> TRUE,  docs |-> <<>>,        intent |-> "general"],
      [raised |-> FALSE, docs |-> <<>>,        intent |-> "general"],
      [raised |-> FALSE, docs |-> <<"doc1">>,  intent |-> "billing"] }

\* generate_response returns a reply, returns None, or raises.
GenerateOutcomes ==
    { [raised |-> TRUE,  response |-> None],
      [raised |-> FALSE, response |-> None],
      [raised |-> FALSE, response |-> Some("reply")] }

\* send_response_email returns True, returns False, or raises.
SendOutcomes == {"true", "false", "raise"}

Call(op, email, outcome) == [op |-> op, email |-> email, outcome |-> outcome]

\* What a node hands back to the graph engine: the state it returns, the
\* collaborator calls it made, and the exception that escaped it (None when
\* the node returned normally).
Out(st, cs) == [state |-> st, calls |-> cs, exc |-> None]

(***************************************************************************)
(* The nodes                                                                *)
(***************************************************************************)
initial_state ==
    [ emails |-> <<>>,
      current_email |-> None,
      processed_count |-> 0,
      successful_responses |-> 0,
      failed_responses |-> 0,
      intent |-> None,
      relevant_docs |-> <<>>,
      generated_response |-> None,
      send_result |-> None,
      last_error |-> None,
      processing_log |-> <<>> ]

\* Variant of _fetch_emails whose except branch does not record the error.
_fetch_emails_no_last_error(st, r) ==
    LET c == <<Call("fetch_unread_emails", 0, IF r.raised THEN "raise" ELSE "ok")>>
    IN  IF ~r.raised
        THEN Out([st EXCEPT !.emails = r.emails,
                            !.processed_count = 0,
                            !.successful_responses = 0,
                            !.failed_responses = 0,
                            !.processing_log =
                                <<[kind |-> "fetched", n |-> Len(r.emails)]>>], c)
        ELSE Out([st EXCEPT !.emails = <<>>,
                            !.processing_log =
                                <<[kind |-> "error", msg |-> "Failed to fetch emails"]>>], c)

_fetch_emails(st, r) ==
    LET c == <<Call("fetch_unread_emails", 0, IF r.raised THEN "raise" ELSE "ok")>>
    IN  IF ~r.raised
        THEN Out([st EXCEPT !.emails = r.emails,
                            !.processed_count = 0,
                            !.successful_responses = 0,
                            !.failed_responses = 0,
                            !.processing_log =
                                <<[kind |-> "fetched", n |-> Len(r.emails)]>>], c)
        ELSE Out([st EXCEPT !.last_error = Some("Failed to fetch emails"),
                            !.emails = <<>>,
                            !.processing_log =
                                <<[kind |-> "error", msg |-> "Failed to fetch emails"]>>], c)

\* Variant of _should_process_emails that tests len(emails) >= 0.
_should_process_emails_ge(st) ==
    IF Len(st.emails) >= 0 THEN "process" ELSE "complete"

_should_process_emails(st) ==
    IF Len(st.emails) > 0 THEN "process" ELSE "complete"

\* Variant of _process_single_email that always takes the first email.
_process_single_email_first(st, mark) ==
    IF st.processed_count < Len(st.emails)
    THEN LET current_email == st.emails[1]
         IN  Out([st EXCEPT !.current_email = Some(current_email),
                            !.processing_log = Append(@,
                                [kind |-> "processing",
                                 index |-> st.processed_count + 1,
                                 total |-> Len(st.emails),
                                 subject |-> current_email.subject])],
                 <<Call("mark_as_read", current_email.message_id, mark)>>)
    ELSE Out(st, <<>>)

\* Variant of _process_single_email without the try/except around mark_as_read.
_process_single_email_mark_fatal(st, mark) ==
    IF st.processed_count < Len(st.emails)
    THEN LET current_email == st.emails[st.processed_count + 1]
             c == <<Call("mark_as_read", current_email.message_id, mark)>>
         IN  IF mark = "raise"
             THEN [state |-> st, calls |-> c, exc |-> Some("mark_as_read")]
             ELSE Out([st EXCEPT !.current_email = Some(current_email)], c)
    ELSE Out(st, <<>>)

_process_single_email(st, mark) ==
    IF st.processed_count < Len(st.emails)
    THEN LET current_email == st.emails[st.processed_count + 1]
         IN  Out([st EXCEPT !.current_email = Some(current_email),
                            !.processing_log = Append(@,
                                [kind |-> "processing",
                                 index |-> st.processed_count + 1,
                                 total |-> Len(st.emails),
                                 subject |-> current_email.subject])],
                 <<Call("mark_as_read", current_email.message_id, mark)>>)
    ELSE Out(st, <<>>)

\* Variant of _retrieve_policies whose except branch keeps the fragments and
\* intent it finds in the state.
_retrieve_policies_no_substitute(st, r) ==
    IF st.current_email = None
    THEN Out([st EXCEPT !.last_error = Some("No current email to process")], <<>>)
    ELSE LET current_email == st.current_email[1]
             c == <<Call("retrieve_relevant_policies", current_email.message_id,
                         IF r.raised THEN "raise" ELSE "ok")>>
         IN  IF ~r.raised
             THEN Out([st EXCEPT !.relevant_docs = r.docs,
                                 !.intent = Some(r.intent)], c)
             ELSE Out([st EXCEPT !.last_error = Some("Failed to retrieve policies")], c)

_retrieve_policies(st, r) ==
    IF st.current_email = None
    THEN Out([st EXCEPT !.last_error = Some("No current email to process")], <<>>)
    ELSE LET current_email == st.current_email[1]
             c == <<Call("retrieve_relevant_policies", current_email.message_id,
                         IF r.raised THEN "raise" ELSE "ok")>>
         IN  IF ~r.raised
             THEN Out([st EXCEPT !.relevant_docs = r.docs,
                                 !.intent = Some(r.intent),
                                 !.processing_log = Append(@,
                                     [kind |-> "retrieved", n |-> Len(r.docs),
                                      intent |-> r.intent])], c)
             ELSE Out([st EXCEPT !.last_error = Some("Failed to retrieve policies"),
                                 !.relevant_docs = <<>>,
                                 !.intent = Some("general")], c)

\* Variant of _generate_response without the try/except around the generator call.
_generate_response_no_except(st, r) ==
    IF st.current_email = None
    THEN Out([st EXCEPT !.last_error =
                            Some("No current email to generate response for")], <<>>)
    ELSE LET current_email == st.current_email[1]
             c == <<Call("generate_response", current_email.message_id,
                         IF r.raised THEN "raise" ELSE "ok")>>
         IN  IF ~r.raised
             THEN Out([st EXCEPT !.generated_response = r.response], c)
             ELSE [state |-> st, calls |-> c, exc |-> Some("generate_response")]

_generate_response(st, r) ==
    IF st.current_email = None
    THEN Out([st EXCEPT !.last_error =
                            Some("No current email to generate response for")], <<>>)
    ELSE LET current_email == st.current_email[1]
             c == <<Call("generate_response", current_email.message_id,
                         IF r.raised THEN "raise" ELSE "ok")>>
         IN  IF ~r.raised
             THEN IF Truthy(r.response)
                  THEN Out([st EXCEPT !.generated_response = r.response,
                                      !.processing_log = Append(@,
                                          [kind |-> "generated"])], c)
                  ELSE Out([st EXCEPT !.generated_response = r.response,
                                      !.last_error =
                                          Some("LLM failed to generate response"),
                                      !.processing_log = Append(@,
                                          [kind |-> "generate_failed"])], c)
             ELSE Out([st EXCEPT !.last_error = Some("Failed to generate response"),
                                 !.generated_response = None], c)

\* Variant of _send_response that only checks for a current email before it
\* calls the transport.
_send_response_no_reply_check(st, r) ==
    IF st.current_email = None
    THEN Out([st EXCEPT !.last_error = Some("Missing email or response for sending"),
                        !.failed_responses = @ + 1], <<>>)
    ELSE LET current_email == st.current_email[1]
             c == <<Call("send_response_email", current_email.message_id, r)>>
         IN  IF r = "true"
             THEN Out([st EXCEPT !.successful_responses = @ + 1,
                                 !.send_result = Some([success |-> TRUE])], c)
             ELSE Out([st EXCEPT !.failed_responses = @ + 1,
                                 !.last_error = Some("Email sending failed")], c)

\* Variant of _send_response without the try/except around the transport call.
_send_response_no_except(st, r) ==
    IF st.current_email = None \/ ~Truthy(st.generated_response)
    THEN Out([st EXCEPT !.last_error = Some("Missing email or response for sending"),
                        !.failed_responses = @ + 1], <<>>)
    ELSE LET current_email == st.current_email[1]
             c == <<Call("send_response_email", current_email.message_id, r)>>
         IN  CASE r = "true" ->
                    Out([st EXCEPT !.successful_responses = @ + 1,
                                   !.processing_log = Append(@,
                                       [kind |-> "sent",
                                        to |-> current_email.sender_email]),
                                   !.send_result = Some([success |-> TRUE])], c)
               [] r = "false" ->
                    Out([st EXCEPT !.failed_responses = @ + 1,
                                   !.last_error = Some("Email sending failed"),
                                   !.processing_log = Append(@,
                                       [kind |-> "send_failed",
                                        to |-> current_email.sender_email]),
                                   !.send_result = Some([success |-> FALSE])], c)
               [] OTHER ->
                    [state |-> st, calls |-> c, exc |-> Some("Error sending response")]

_send_response(st, r) ==
    IF st.current_email = None \/ ~Truthy(st.generated_response)
    THEN Out([st EXCEPT !.last_error = Some("Missing email or response for sending"),
                        !.failed_responses = @ + 1], <<>>)
    ELSE LET current_email == st.current_email[1]
             c == <<Call("send_response_email", current_email.message_id, r)>>
         IN  CASE r = "true" ->
                    Out([st EXCEPT !.successful_responses = @ + 1,
                                   !.processing_log = Append(@,
                                       [kind |-> "sent",
                                        to |-> current_email.sender_email]),
                                   !.send_result = Some([success |-> TRUE])], c)
               [] r = "false" ->
                    Out([st EXCEPT !.failed_responses = @ + 1,
                                   !.last_error = Some("Email sending failed"),
                                   !.processing_log = Append(@,
                                       [kind |-> "send_failed",
                                        to |-> current_email.sender_email]),
                                   !.send_result = Some([success |-> FALSE])], c)
               [] OTHER ->
                    Out([st EXCEPT !.last_error = Some("Error sending response"),
                                   !.failed_responses = @ + 1], c)

\* Variant of _next_email that clears the scratch fields and leaves the cursor.
_next_email_stays(st) ==
    Out([st EXCEPT !.current_email = None,
                   !.intent = None,
                   !.relevant_docs = <<>>,
                   !.generated_response = None,
                   !.send_result = None,
                   !.last_error = None], <<>>)

\* Variant of _next_email that only moves the cursor.
_next_email_keeps_current(st) ==
    Out([st EXCEPT !.processed_count = @ + 1], <<>>)

\* Variant of _next_email that leaves the per-item error in place.
_next_email_keeps_error(st) ==
    Out([st EXCEPT !.processed_count = @ + 1,
                   !.current_email = None,
                   !.intent = None,
                   !.relevant_docs = <<>>,
                   !.generated_response = None,
                   !.send_result = None], <<>>)

_next_email(st) ==
    Out([st EXCEPT !.processed_count = @ + 1,
                   !.current_email = None,
                   !.intent = None,
                   !.relevant_docs = <<>>,
                   !.generated_response = None,
                   !.send_result = None,
                   !.last_error = None], <<>>)

\* Variant of _should_continue_processing that stops the batch after a failure.
_should_continue_processing_abort(st) ==
    IF st.processed_count < Len(st.emails) /\ st.failed_responses = 0
    THEN "continue" ELSE "complete"

_should_continue_processing(st) ==
    IF st.processed_count < Len(st.emails) THEN "continue" ELSE "complete"

\* Variant of _finalize_processing that puts the summary in front of the log.
_finalize_processing_prepends(st) ==
    Out([st EXCEPT !.processing_log =
            <<[kind |-> "summary",
               successful |-> st.successful_responses,
               failed |-> st.failed_responses,
               total |-> Len(st.emails)]>> \o @], <<>>)

\* Variant of _finalize_processing that reads the two counters the wrong way round.
_finalize_processing_swapped(st) ==
    Out([st EXCEPT !.processing_log = Append(@,
            [kind |-> "summary",
             successful |-> st.failed_responses,
             failed |-> st.successful_responses,
             total |-> Len(st.emails)])], <<>>)

_finalize_processing(st) ==
    Out([st EXCEPT !.processing_log = Append(@,
            [kind |-> "summary",
             successful |-> st.successful_responses,
             failed |-> st.failed_responses,
             total |-> Len(st.emails)])], <<>>)

\* Variant of the graph whose generate_response edge leads to next_email.
_build_workflow_skip_send(n, st) ==
    CASE n = "fetch_emails" ->
            IF _should_process_emails(st) = "process"
            THEN "process_email" ELSE "finalize"
      [] n = "process_email" -> "retrieve_policies"
      [] n = "retrieve_policies" -> "generate_response"
      [] n = "generate_response" ->
            IF _should_continue_processing(st) = "continue"
            THEN "next_email" ELSE "send_response"
      [] n = "send_response" ->
            IF _should_continue_processing(st) = "continue"
            THEN "next_email" ELSE "finalize"
      [] n = "next_email" -> "process_email"
      [] n = "finalize" -> "END"

(***************************************************************************)
(* The graph: which node runs after node n has returned state st            *)
(***************************************************************************)
_build_workflow(n, st) ==
    CASE n = "fetch_emails" ->
            IF _should_process_emails(st) = "process"
            THEN "process_email" ELSE "finalize"
      [] n = "process_email" -> "retrieve_policies"
      [] n = "retrieve_policies" -> "generate_response"
      [] n = "generate_response" -> "send_response"
      [] n = "send_response" ->
            IF _should_continue_processing(st) = "continue"
            THEN "next_email" ELSE "finalize"
      [] n = "next_email" -> "process_email"
      [] n = "finalize" -> "END"

\* One step of graph.invoke: node n has run and produced out. An exception that
\* escapes the node leaves invoke (there is no handler inside the graph).
Invoke(n, out) ==
    /\ visited' = Append(visited, [node |-> n, email |-> out.state.current_email])
    /\ calls' = calls \o out.calls
    /\ IF out.exc # None
       THEN node' = "raised" /\ state' = state
       ELSE node' = _build_workflow(n, out.state) /\ state' = out.state
    /\ UNCHANGED <<graph, result, running>>
    /\ UNCHANGED <<cachevars, chainvars>>

(***************************************************************************)
(* The cache (cache_manager.py)                                             *)
(***************************************************************************)
cache_ttl_hours == 24

Prefixes == {"prompt", "embedding"}
LogicalKeys == {"k1"}
Values == {"v1", "v2"}

\* A dict with key k bound to v, and a dict without key k.
Put(d, k, v) == [x \in DOMAIN d \cup {k} |-> IF x = k THEN v ELSE d[x]]
Del(d, k) == [x \in DOMAIN d \ {k} |-> d[x]]
EmptyDict == [x \in {} |-> None]

\* "{prefix}:{md5(data)}": one key per (prefix, data), digest collisions aside.
_get_cache_key(prefix, data) == <<prefix, <<"md5", data>>>>

CacheKeys == {_get_cache_key(p, k) : p \in Prefixes, k \in LogicalKeys}

\* json.dumps / json.loads of the {value, timestamp} record; the values cached
\* here are JSON-native (strings), which the round trip preserves.
json_dumps(cache_data) == <<"json", cache_data>>
json_loads(text) == text[2]

\* Variant of _is_expired that compares with >= instead of >.
_is_expired_ge(timestamp) == now >= timestamp + cache_ttl_hours

\* A timestamp is the hour its ISO string denotes; a string that
\* datetime.fromisoformat cannot parse is a negative number, for which the
\* except branch answers True.
_is_expired(timestamp) ==
    IF timestamp < 0 THEN TRUE ELSE now > timestamp + cache_ttl_hours

\* The operations return the tiers as they leave them and, in exc, the exception
\* that escaped the call (None when the call returned normally).

\* What the server can hold under a key besides the text set wrote: text that
\* json.loads rejects, an object without 'timestamp', an object without
\* 'value', and an object whose timestamp cannot be parsed.
MalformedTexts ==
    {<<"undecodable">>}
    \cup {<<"json", [value |-> v]>> : v \in {"v1"}}
    \cup {<<"json", [timestamp |-> 0]>>}
    \cup {<<"json", [value |-> v, timestamp |-> 0 - 1]>> : v \in {"v1"}}

\* What the Redis part of get (the try block) does with the text stored under
\* cache_key: "hit" returns its value, "expired" deletes it, "malformed" is an
\* exception of json.loads or of a subscript, caught by the except clause.
RedisLookup(text) ==
    IF text[1] # "json" THEN "malformed"
    ELSE LET data == json_loads(text)
         IN  IF "timestamp" \notin DOMAIN data THEN "malformed"
             ELSE IF _is_expired(data.timestamp) THEN "expired"
             ELSE IF "value" \notin DOMAIN data THEN "malformed"
             ELSE "hit"

\* Variant of get without the try/except around the Redis part.
get_no_except(prefix, key) ==
    LET cache_key == _get_cache_key(prefix, key)
        found == IF ~redis_client THEN "none"
                 ELSE IF ~redis_up THEN "unreachable"
                 ELSE IF cache_key \notin DOMAIN redis_store THEN "absent"
                 ELSE RedisLookup(redis_store[cache_key].data)
    IN  IF found \in {"unreachable", "malformed"}
        THEN [value |-> None, exc |-> Some("Exception"), redis |-> found,
              memory_cache |-> memory_cache, redis_store |-> redis_store]
        ELSE IF found = "hit"
        THEN [value |-> Some(json_loads(redis_store[cache_key].data).value),
              exc |-> None, redis |-> found,
              memory_cache |-> memory_cache, redis_store |-> redis_store]
        ELSE [value |-> None, exc |-> None, redis |-> found,
              memory_cache |-> memory_cache, redis_store |-> redis_store]

\* Variant of get that leaves an expired entry where it finds it.
get_keeps_expired(prefix, key) ==
    LET cache_key == _get_cache_key(prefix, key)
        found == IF ~redis_client THEN "none"
                 ELSE IF ~redis_up THEN "unreachable"
                 ELSE IF cache_key \notin DOMAIN redis_store THEN "absent"
                 ELSE RedisLookup(redis_store[cache_key].data)
    IN  IF found = "hit"
        THEN [value |-> Some(json_loads(redis_store[cache_key].data).value),
              exc |-> None, redis |-> found,
              memory_cache |-> memory_cache, redis_store |-> redis_store]
        ELSE IF cache_key \in DOMAIN memory_cache
                  /\ ~_is_expired(memory_cache[cache_key].timestamp)
        THEN [value |-> Some(memory_cache[cache_key].value), exc |-> None,
              redis |-> found,
              memory_cache |-> memory_cache, redis_store |-> redis_store]
        ELSE [value |-> None, exc |-> None, redis |-> found,
              memory_cache |-> memory_cache, redis_store |-> redis_store]

\* get: the value returned (None for a miss), and in redis what the Redis part
\* did: "none" (no client), "unreachable" (the client call raised), "absent",
\* or the outcome of RedisLookup.
get(prefix, key) ==
    LET cache_key == _get_cache_key(prefix, key)
        found == IF ~redis_client THEN "none"
                 ELSE IF ~redis_up THEN "unreachable"
                 ELSE IF cache_key \notin DOMAIN redis_store THEN "absent"
                 ELSE RedisLookup(redis_store[cache_key].data)
        redis_after == IF found = "expired"
                       THEN Del(redis_store, cache_key) ELSE redis_store
    IN  IF found = "hit"
        THEN [value |-> Some(json_loads(redis_store[cache_key].data).value),
              exc |-> None, redis |-> found,
              memory_cache |-> memory_cache, redis_store |-> redis_store]
        ELSE IF cache_key \in DOMAIN memory_cache
             THEN IF ~_is_expired(memory_cache[cache_key].timestamp)
                  THEN [value |-> Some(memory_cache[cache_key].value), exc |-> None,
                        redis |-> found,
                        memory_cache |-> memory_cache, redis_store |-> redis_after]
                  ELSE [value |-> None, exc |-> None, redis |-> found,
                        memory_cache |-> Del(memory_cache, cache_key),
                        redis_store |-> redis_after]
             ELSE [value |-> None, exc |-> None, redis |-> found,
                   memory_cache |-> memory_cache, redis_store |-> redis_after]

\* Variant of set without the try/except around the setex call.
set_no_except(prefix, key, value) ==
    LET cache_key == _get_cache_key(prefix, key)
        cache_data == [value |-> value, timestamp |-> now]
    IN  IF redis_client /\ ~redis_up
        THEN [exc |-> Some("ConnectionError"),
              memory_cache |-> memory_cache, redis_store |-> redis_store]
        ELSE [exc |-> None,
              memory_cache |-> Put(memory_cache, cache_key, cache_data),
              redis_store |->
                 IF redis_client
                 THEN Put(redis_store, cache_key,
                          [data |-> json_dumps(cache_data),
                           expire_at |-> now + cache_ttl_hours])
                 ELSE redis_store]

set(prefix, key, value) ==
    LET cache_key == _get_cache_key(prefix, key)
        cache_data == [value |-> value, timestamp |-> now]
    IN  [exc |-> None,
         memory_cache |-> Put(memory_cache, cache_key, cache_data),
         redis_store |->
            IF redis_client /\ redis_up
            THEN Put(redis_store, cache_key,
                     [data |-> json_dumps(cache_data),
                      expire_at |-> now + cache_ttl_hours])
            ELSE redis_store]

clear_cache ==
    [exc |-> None,
     redis |-> IF ~redis_client THEN "none"
               ELSE IF ~redis_up THEN "unreachable" ELSE "flushed",
     memory_cache |-> EmptyDict,
     redis_store |-> IF redis_client /\ redis_up THEN EmptyDict ELSE redis_store]

CacheManagerInit ==
    /\ now = 0
    /\ memory_cache = EmptyDict
    /\ redis_client \in BOOLEAN
    /\ redis_up = redis_client
    /\ redis_store = EmptyDict
    /\ written = [k \in CacheKeys |-> None]
    /\ ret = None

Get ==
    \E p \in Prefixes, k \in LogicalKeys :
        LET r == get(p, k)
        IN  /\ memory_cache' = r.memory_cache
            /\ redis_store' = r.redis_store
            /\ ret' = Some([op |-> "get", key |-> _get_cache_key(p, k),
                         value |-> r.value, at |-> now, exc |-> r.exc,
                         redis |-> r.redis])
            /\ UNCHANGED <<now, redis_client, redis_up, written>>
            /\ UNCHANGED <<wfvars, chainvars>>

Set ==
    \E p \in Prefixes, k \in LogicalKeys, v \in Values :
        LET r == set(p, k, v)
        IN  /\ memory_cache' = r.memory_cache
            /\ redis_store' = r.redis_store
            /\ written' = IF r.exc # None THEN written
                          ELSE [written EXCEPT ![_get_cache_key(p, k)] =
                                   Some([value |-> v, timestamp |-> now])]
            /\ ret' = Some([op |-> "set", key |-> _get_cache_key(p, k),
                         value |-> None, at |-> now, exc |-> r.exc])
            /\ UNCHANGED <<now, redis_client, redis_up>>
            /\ UNCHANGED <<wfvars, chainvars>>

ClearCache ==
    /\ memory_cache' = clear_cache.memory_cache
    /\ redis_store' = clear_cache.redis_store
    /\ written' = [k \in CacheKeys |-> None]
    /\ ret' = Some([op |-> "clear_cache", key |-> None, value |-> None,
                 at |-> now, exc |-> clear_cache.exc,
                 redis |-> clear_cache.redis])
    /\ UNCHANGED <<now, redis_client, redis_up>>
    /\ UNCHANGED <<wfvars, chainvars>>

\* Time passes.
Tick ==
    /\ now + TickHours <= MaxTime
    /\ now' = now + TickHours
    /\ UNCHANGED <<memory_cache, redis_client, redis_up, redis_store, written, ret>>
    /\ UNCHANGED <<wfvars, chainvars>>

\* The Redis server becomes unreachable, and reachable again.
RedisDown ==
    /\ redis_client /\ redis_up
    /\ redis_up' = FALSE
    /\ UNCHANGED <<now, memory_cache, redis_client, redis_store, written, ret>>
    /\ UNCHANGED <<wfvars, chainvars>>

RedisUp ==
    /\ redis_client /\ ~redis_up
    /\ redis_up' = TRUE
    /\ UNCHANGED <<now, memory_cache, redis_client, redis_store, written, ret>>
    /\ UNCHANGED <<wfvars, chainvars>>

\* The text the server holds under a key is replaced by malformed text (the
\* server is shared with whatever else writes to it).
RedisCorrupt ==
    \E ck \in DOMAIN redis_store, text \in MalformedTexts :
        /\ redis_store' = [redis_store EXCEPT ![ck].data = text]
        /\ UNCHANGED <<now, memory_cache, redis_client, redis_up, written, ret>>
        /\ UNCHANGED <<wfvars, chainvars>>

\* The server drops a key whose setex time-to-live has run out.
RedisExpire ==
    \E ck \in DOMAIN redis_store :
        /\ now >= redis_store[ck].expire_at
        /\ redis_store' = Del(redis_store, ck)
        /\ UNCHANGED <<now, memory_cache, redis_client, redis_up, written, ret>>
        /\ UNCHANGED <<wfvars, chainvars>>

(***************************************************************************)
(* Strings (Python str operations the chains use)                           *)
(***************************************************************************)
UpperCase == "ABCDEFGHIJKLMNOPQRSTUVWXYZ"
LowerCase == "abcdefghijklmnopqrstuvwxyz"

LowerOf ==
    [c \in {SubSeq(UpperCase, i, i) : i \in 1..Len(UpperCase)} |->
        LET i == CHOOSE i \in 1..Len(UpperCase) : SubSeq(UpperCase, i, i) = c
        IN  SubSeq(LowerCase, i, i)]

LowerChar(c) == IF c \in DOMAIN LowerOf THEN LowerOf[c] ELSE c

\* str.lower()
RECURSIVE lower(_)
lower(s) ==
    IF s = "" THEN ""
    ELSE LowerChar(SubSeq(s, 1, 1)) \o lower(SubSeq(s, 2, Len(s)))

Whitespace == {" ", "\n", "\t", "\r"}

RECURSIVE lstrip(_)
lstrip(s) ==
    IF s # "" /\ SubSeq(s, 1, 1) \in Whitespace
    THEN lstrip(SubSeq(s, 2, Len(s)))
    ELSE s

RECURSIVE rstrip(_)
rstrip(s) ==
    IF s # "" /\ SubSeq(s, Len(s), Len(s)) \in Whitespace
    THEN rstrip(SubSeq(s, 1, Len(s) - 1))
    ELSE s

\* str.strip()
strip(s) == rstrip(lstrip(s))

\* keyword in text, for a non-empty keyword
Contains(text, keyword) ==
    \E i \in 1..(Len(text) - Len(keyword) + 1) :
        SubSeq(text, i, i + Len(keyword) - 1) = keyword

\* str.split(sep) for a one-character separator
RECURSIVE split(_, _)
split(s, sep) ==
    IF \E i \in 1..Len(s) : SubSeq(s, i, i) = sep
    THEN LET i == CHOOSE i \in 1..Len(s) :
                      /\ SubSeq(s, i, i) = sep
                      /\ \A j \in 1..(i - 1) : SubSeq(s, j, j) # sep
         IN  <<SubSeq(s, 1, i - 1)>> \o split(SubSeq(s, i + 1, Len(s)), sep)
    ELSE <<s>>

\* sep.join(parts)
RECURSIVE join(_, _)
join(sep, parts) ==
    IF parts = <<>> THEN ""
    ELSE IF Len(parts) = 1 THEN parts[1]
    ELSE parts[1] \o sep \o join(sep, Tail(parts))

Min(a, b) == IF a < b THEN a ELSE b

(***************************************************************************)
(* The intent classifier and the policy retriever (retriever_chain.py)      *)
(***************************************************************************)
\* IntentClassifier.INTENTS, in the order the dict declares its keys
INTENTS ==
    << [intent |-> "billing",
        keywords |-> <<"billing", "payment", "invoice", "refund",
                       "subscription", "charge", "cost", "price">>],
       [intent |-> "technical_support",
        keywords |-> <<"error", "bug", "problem", "issue", "broken",
                       "not working", "help", "technical">>],
       [intent |-> "feature_request",
        keywords |-> <<"feature", "request", "suggestion", "improvement",
                       "new", "add", "enhancement">>],
       [intent |-> "general",
        keywords |-> <<"question", "info", "information", "contact",
                       "hours", "address", "about">>] >>

IntentNames == {INTENTS[i].intent : i \in DOMAIN INTENTS}

\* INTENTS.get(intent, [])
KeywordsOf(intent) ==
    IF intent \in IntentNames
    THEN INTENTS[CHOOSE i \in DOMAIN INTENTS : INTENTS[i].intent = intent].keywords
    ELSE <<>>

\* sum(1 for keyword in keywords if keyword in text)
KeywordScore(keywords, text) ==
    Cardinality({k \in DOMAIN keywords : Contains(text, keywords[k])})

\* What self.llm.invoke can do: raise, or answer with some content.
LLMIntentOutcomes ==
    { [raised |-> TRUE, content |-> ""],
      [raised |-> FALSE, content |-> "billing"],
      [raised |-> FALSE, content |-> " Technical_Support\n"],
      [raised |-> FALSE, content |-> "unsure"] }

\* Variant of classify_intent that asks the model first whenever one is configured.
classify_intent_llm_first(self_llm, email_subject, email_body, o) ==
    LET text == lower(email_subject \o " " \o email_body)
        score(i) == KeywordScore(INTENTS[i].keywords, text)
        intent_scores == {i \in DOMAIN INTENTS : score(i) > 0}
        llm_intent == lower(strip(o.content))
    IN  IF self_llm
        THEN IF ~o.raised /\ llm_intent \in IntentNames
             THEN [intent |-> llm_intent, llm_called |-> TRUE]
             ELSE [intent |-> "general", llm_called |-> TRUE]
        ELSE IF intent_scores # {}
        THEN [intent |-> INTENTS[CHOOSE i \in intent_scores :
                            \A j \in intent_scores : score(j) <= score(i)].intent,
              llm_called |-> FALSE]
        ELSE [intent |-> "general", llm_called |-> FALSE]

\* Variant of classify_intent in which the last of several intents with the
\* largest score wins.
classify_intent_last_max(self_llm, email_subject, email_body, o) ==
    LET text == lower(email_subject \o " " \o email_body)
        score(i) == KeywordScore(INTENTS[i].keywords, text)
        intent_scores == {i \in DOMAIN INTENTS : score(i) > 0}
        classified == CHOOSE i \in intent_scores :
                          \A j \in intent_scores :
                              \/ score(j) < score(i)
                              \/ score(j) = score(i) /\ j <= i
        llm_intent == lower(strip(o.content))
    IN  IF intent_scores # {}
        THEN [intent |-> INTENTS[classified].intent, llm_called |-> FALSE]
        ELSE IF self_llm
        THEN IF ~o.raised /\ llm_intent \in IntentNames
             THEN [intent |-> llm_intent, llm_called |-> TRUE]
             ELSE [intent |-> "general", llm_called |-> TRUE]
        ELSE [intent |-> "general", llm_called |-> FALSE]

\* Variant of classify_intent that accepts the model's answer as it comes,
\* without strip() and lower().
classify_intent_verbatim(self_llm, email_subject, email_body, o) ==
    LET text == lower(email_subject \o " " \o email_body)
        score(i) == KeywordScore(INTENTS[i].keywords, text)
        intent_scores == {i \in DOMAIN INTENTS : score(i) > 0}
        classified == CHOOSE i \in intent_scores :
                          \A j \in intent_scores :
                              \/ score(j) < score(i)
                              \/ score(j) = score(i) /\ i <= j
    IN  IF intent_scores # {}
        THEN [intent |-> INTENTS[classified].intent, llm_called |-> FALSE]
        ELSE IF self_llm
        THEN IF ~o.raised
             THEN [intent |-> o.content, llm_called |-> TRUE]
             ELSE [intent |-> "general", llm_called |-> TRUE]
        ELSE [intent |-> "general", llm_called |-> FALSE]

\* classify_intent of a classifier whose self.llm is set iff self_llm; o is what
\* the model does if it is invoked. Returns the intent and whether the model
\* was invoked.
classify_intent(self_llm, email_subject, email_body, o) ==
    LET text == lower(email_subject \o " " \o email_body)
        score(i) == KeywordScore(INTENTS[i].keywords, text)
        intent_scores == {i \in DOMAIN INTENTS : score(i) > 0}
        \* max(intent_scores, key=intent_scores.get): the first key, in insertion
        \* order, that has the largest score
        classified == CHOOSE i \in intent_scores :
                          \A j \in intent_scores :
                              \/ score(j) < score(i)
                              \/ score(j) = score(i) /\ i <= j
        llm_intent == lower(strip(o.content))
    IN  IF intent_scores # {}
        THEN [intent |-> INTENTS[classified].intent, llm_called |-> FALSE]
        ELSE IF self_llm
        THEN IF ~o.raised /\ llm_intent \in IntentNames
             THEN [intent |-> llm_intent, llm_called |-> TRUE]
             ELSE [intent |-> "general", llm_called |-> TRUE]
        ELSE [intent |-> "general", llm_called |-> FALSE]

top_k_docs == 5

\* A Document: its text and metadata.get("filename", "")
Document(page_content, filename) ==
    [page_content |-> page_content, filename |-> filename]

AllDocuments ==
    << Document("no match", ""),
       Document("billing refund", "terms.md"),
       Document("Refund policy", "Billing.md"),
       Document("payment refund", "notes.md"),
       Document("contact hours", "support.md"),
       Document("Invoice", "Contact.md"),
       Document("price and cost", "faq.md") >>

\* The score _rank_documents_by_intent gives a document
DocScore(doc, intent_keywords) ==
    LET content_lower == lower(doc.page_content)
        filename == lower(doc.filename)
    IN  KeywordScore(intent_keywords, content_lower)
          + (IF \E k \in DOMAIN intent_keywords : Contains(filename, intent_keywords[k])
             THEN 2 ELSE 0)

\* Variant of the sort that puts a document in front of those of equal score.
RECURSIVE sort_reverse_unstable(_)
sort_reverse_unstable(scored_docs) ==
    IF scored_docs = <<>> THEN <<>>
    ELSE LET x == scored_docs[Len(scored_docs)]
             rest == sort_reverse_unstable(SubSeq(scored_docs, 1, Len(scored_docs) - 1))
             p == Cardinality({i \in DOMAIN rest : rest[i].score > x.score})
         IN  SubSeq(rest, 1, p) \o <<x>> \o SubSeq(rest, p + 1, Len(rest))

\* scored_docs.sort(key=lambda x: x[0], reverse=True): list.sort is stable, and
\* with reverse=True elements of equal key keep their original order.
RECURSIVE sort_reverse(_)
sort_reverse(scored_docs) ==
    IF scored_docs = <<>> THEN <<>>
    ELSE LET x == scored_docs[Len(scored_docs)]
             rest == sort_reverse(SubSeq(scored_docs, 1, Len(scored_docs) - 1))
             p == Cardinality({i \in DOMAIN rest : rest[i].score >= x.score})
         IN  SubSeq(rest, 1, p) \o <<x>> \o SubSeq(rest, p + 1, Len(rest))

\* Variant of _rank_documents_by_intent that returns the whole sorted list.
_rank_documents_by_intent_no_limit(documents, intent) ==
    IF documents = <<>> THEN documents
    ELSE LET intent_keywords == KeywordsOf(intent)
             scored_docs == [i \in DOMAIN documents |->
                                [score |-> DocScore(documents[i], intent_keywords),
                                 doc |-> documents[i]]]
             sorted == sort_reverse(scored_docs)
         IN  [i \in DOMAIN sorted |-> sorted[i].doc]

\* Variant of _rank_documents_by_intent that sorts by ascending score.
_rank_documents_by_intent_ascending(documents, intent) ==
    IF documents = <<>> THEN documents
    ELSE LET intent_keywords == KeywordsOf(intent)
             scored_docs == [i \in DOMAIN documents |->
                                [score |-> 0 - DocScore(documents[i], intent_keywords),
                                 doc |-> documents[i]]]
             sorted == sort_reverse(scored_docs)
             max_docs == Min(top_k_docs, Len(sorted))
         IN  [i \in 1..max_docs |-> sorted[i].doc]

_rank_documents_by_intent(documents, intent) ==
    IF documents = <<>> THEN documents
    ELSE LET intent_keywords == KeywordsOf(intent)
             scored_docs == [i \in DOMAIN documents |->
                                [score |-> DocScore(documents[i], intent_keywords),
                                 doc |-> documents[i]]]
             sorted == sort_reverse(scored_docs)
             max_docs == Min(top_k_docs, Len(sorted))
         IN  [i \in 1..max_docs |-> sorted[i].doc]

\* The attributes a CacheManager instance has
CacheManagerMethods ==
    {"get", "set", "get_prompt_response", "set_prompt_response",
     "get_embedding", "set_embedding", "clear_cache", "test_connection",
     "get_cache_stats"}

\* What self.retriever.invoke(query) can do: raise, or return candidates.
SearchOutcomes ==
    { [raised |-> TRUE, documents |-> <<>>],
      [raised |-> FALSE, documents |-> <<>>],
      [raised |-> FALSE, documents |-> <<AllDocuments[1], AllDocuments[2]>>] }

\* retrieve_relevant_policies; intent is the optional argument, o what the
\* classifier's model does if invoked, search what the index does if queried.
\* Returns the pair (docs, intent), or the exception that escapes in exc.
retrieve_relevant_policies(email_subject, email_body, intent, o, search) ==
    IF ~retriever
    THEN [docs |-> <<>>, intent |-> "general", exc |-> None, searched |-> FALSE]
    ELSE LET resolved == IF Truthy(intent) THEN intent[1]
                         ELSE classify_intent(llm, email_subject, email_body, o).intent
         IN  \* cache_manager.get_embeddings(cache_key) is evaluated outside the try
             IF "get_embeddings" \notin CacheManagerMethods
             THEN [docs |-> <<>>, intent |-> resolved,
                   exc |-> Some("AttributeError"), searched |-> FALSE]
             ELSE IF search.raised
             THEN [docs |-> <<>>, intent |-> resolved, exc |-> None, searched |-> TRUE]
             ELSE \* cache_manager.set_embeddings(...) is evaluated inside the try
                  IF "set_embeddings" \notin CacheManagerMethods
                  THEN [docs |-> <<>>, intent |-> resolved, exc |-> None,
                        searched |-> TRUE]
                  ELSE [docs |-> _rank_documents_by_intent(search.documents, resolved),
                        intent |-> resolved, exc |-> None, searched |-> TRUE]

(***************************************************************************)
(* Calls on the classifier and the retriever                                *)
(***************************************************************************)
MaxDocs == 3        \* candidate lists of every length up to MaxDocs are tried

Subjects == {"Refund request", "Hello", "New address"}
Bodies == {"please help", "nothing here", "an Error and a bug"}
IntentArgs == {None, Some(""), Some("feature_request")}
RankIntents == {"billing", "general"}

Range(f) == {f[i] : i \in DOMAIN f}

Reverse(l) == [i \in DOMAIN l |-> l[Len(l) + 1 - i]]

\* The lists of n distinct documents of the index
RECURSIVE ListsOfDistinct(_)
ListsOfDistinct(n) ==
    IF n = 0 THEN {<<>>}
    ELSE UNION { {Append(l, d) : d \in Range(AllDocuments) \ Range(l)} :
                 l \in ListsOfDistinct(n - 1) }

\* What the index can return: every list of at most MaxDocs distinct documents,
\* and lists longer than top_k_docs.
CandidateLists ==
    UNION {ListsOfDistinct(n) : n \in 0..Min(MaxDocs, Len(AllDocuments))}
    \cup {AllDocuments, Reverse(AllDocuments),
          SubSeq(AllDocuments, 1, top_k_docs + 1),
          Reverse(SubSeq(AllDocuments, 2, top_k_docs + 2))}

Requests ==
    { [op |-> "classify_intent", email_subject |-> s, email_body |-> b, o |-> o] :
        s \in Subjects, b \in Bodies, o \in LLMIntentOutcomes }
    \cup
    { [op |-> "_rank_documents_by_intent", documents |-> l, intent |-> i] :
        l \in CandidateLists, i \in RankIntents }
    \cup
    { [op |-> "retrieve_relevant_policies", email_subject |-> s, email_body |-> b,
       intent |-> i, o |-> o, search |-> q] :
        s \in Subjects, b \in Bodies, i \in IntentArgs,
        o \in LLMIntentOutcomes, q \in SearchOutcomes }

ClassifyIntent ==
    /\ request # None /\ rret = None
    /\ request[1].op = "classify_intent"
    /\ rret' = Some(classify_intent(llm, request[1].email_subject,
                                    request[1].email_body, request[1].o))
    /\ UNCHANGED <<llm, retriever, request, chain, gret>>
    /\ UNCHANGED <<wfvars, cachevars>>

RankDocumentsByIntent ==
    /\ request # None /\ rret = None
    /\ request[1].op = "_rank_documents_by_intent"
    /\ rret' = Some(_rank_documents_by_intent(request[1].documents, request[1].intent))
    /\ UNCHANGED <<llm, retriever, request, chain, gret>>
    /\ UNCHANGED <<wfvars, cachevars>>

RetrieveRelevantPolicies ==
    /\ request # None /\ rret = None
    /\ request[1].op = "retrieve_relevant_policies"
    /\ rret' = Some(retrieve_relevant_policies(request[1].email_subject,
                        request[1].email_body, request[1].intent,
                        request[1].o, request[1].search))
    /\ UNCHANGED <<llm, retriever, request, chain, gret>>
    /\ UNCHANGED <<wfvars, cachevars>>

\* The same retrieve is made a second time, right after the first; rret then
\* holds both answers in order.
RetrieveAgain ==
    /\ request # None /\ rret # None /\ Len(rret) = 1
    /\ request[1].op = "retrieve_relevant_policies"
    /\ rret' = Append(rret, retrieve_relevant_policies(request[1].email_subject,
                                request[1].email_body, request[1].intent,
                                request[1].o, request[1].search))
    /\ UNCHANGED <<llm, retriever, request, chain, gret>>
    /\ UNCHANGED <<wfvars, cachevars>>

(***************************************************************************)
(* The response generator (llm_response_chain.py)                           *)
(***************************************************************************)
max_response_length == 500

StartsWith(s, prefix) == Len(s) >= Len(prefix) /\ SubSeq(s, 1, Len(prefix)) = prefix
EndsWith(s, suffix) ==
    Len(s) >= Len(suffix) /\ SubSeq(s, Len(s) - Len(suffix) + 1, Len(s)) = suffix

\* The lines parse skips: "[...]" lines and lines naming a speaker
Skipped(line) ==
    \/ StartsWith(line, "[") /\ EndsWith(line, "]")
    \/ Contains(lower(line), "assistant:")
    \/ Contains(lower(line), "system:")

RECURSIVE clean_lines(_)
clean_lines(lines) ==
    IF lines = <<>> THEN <<>>
    ELSE IF Skipped(Head(lines)) THEN clean_lines(Tail(lines))
    ELSE <<Head(lines)>> \o clean_lines(Tail(lines))

\* EmailResponseParser.parse
parse(text) ==
    LET lines == split(strip(text), "\n")
        response == strip(join("\n", clean_lines(lines)))
    IN  IF Len(response) > max_response_length
        THEN SubSeq(response, 1, max_response_length) \o "..."
        ELSE response

\* What self.chain.invoke can do: raise, or return the parsed text of what the
\* model wrote.
ChainOutcomes ==
    { [raised |-> TRUE, content |-> ""],
      [raised |-> FALSE, content |-> ""],
      [raised |-> FALSE, content |-> "  Thanks. \n"],
      [raised |-> FALSE, content |-> "[draft]\nAssistant: hello there, how are you"],
      [raised |-> FALSE, content |-> "[note]\nYour refund is on its way.\n"] }

\* Variant of _create_cache_key that takes every fragment, in full.
_create_cache_key_whole(email_subject, email_body, context_docs) ==
    LET content == email_subject \o "|" \o email_body
        context_content ==
            join("|", [i \in DOMAIN context_docs |-> context_docs[i].page_content])
    IN  IF context_docs # <<>> THEN content \o "|" \o context_content ELSE content

_create_cache_key(email_subject, email_body, context_docs) ==
    LET content == email_subject \o "|" \o email_body
        head == SubSeq(context_docs, 1, Min(3, Len(context_docs)))
        context_content ==
            join("|", [i \in DOMAIN head |->
                          SubSeq(head[i].page_content, 1,
                                 Min(100, Len(head[i].page_content)))])
    IN  IF context_docs # <<>> THEN content \o "|" \o context_content ELSE content

_generate_fallback_response(sender_name) ==
    "Dear " \o sender_name \o ",\n\nThank you for contacting us. "
        \o "I'm forwarding your inquiry to our customer service team."
        \o "\n\nBest regards,\nCustomer Service Team"

\* Variant of generate_response that caches the fallback it returns when the
\* chain raises.
generate_response_caches_fallback(email_subject, email_body, sender_name, context_documents, o) ==
    LET cache_key == _create_cache_key(email_subject, email_body, context_documents)
        cached == get("prompt", cache_key)
        fallback == _generate_fallback_response(sender_name)
        stored == set("prompt", cache_key, fallback)
    IN  IF ~chain
        THEN [value |-> None, invoked |-> FALSE,
              memory_cache |-> memory_cache, redis_store |-> redis_store]
        ELSE IF Truthy(cached.value)
        THEN [value |-> cached.value, invoked |-> FALSE,
              memory_cache |-> cached.memory_cache, redis_store |-> cached.redis_store]
        ELSE [value |-> Some(fallback), invoked |-> TRUE,
              memory_cache |-> stored.memory_cache, redis_store |-> stored.redis_store]

\* generate_response; o is what self.chain.invoke does if it is called. Returns
\* the reply (None for no reply), whether the chain was invoked, and the two
\* cache tiers as the call leaves them. The only entry get_prompt_response can
\* remove is the one of cache_key, which set_prompt_response then writes, so the
\* tiers after the set are those of set applied to the tiers before the call.
generate_response(email_subject, email_body, sender_name, context_documents, o) ==
    IF ~chain
    THEN [value |-> None, invoked |-> FALSE,
          memory_cache |-> memory_cache, redis_store |-> redis_store]
    ELSE LET cache_key == _create_cache_key(email_subject, email_body,
                                            context_documents)
             cached_response == get("prompt", cache_key)
             fallback == [value |-> Some(_generate_fallback_response(sender_name)),
                          invoked |-> TRUE,
                          memory_cache |-> cached_response.memory_cache,
                          redis_store |-> cached_response.redis_store]
         IN  IF Truthy(cached_response.value)
             THEN [value |-> cached_response.value, invoked |-> FALSE,
                   memory_cache |-> cached_response.memory_cache,
                   redis_store |-> cached_response.redis_store]
             ELSE IF o.raised
             THEN fallback
             ELSE LET response == parse(o.content)
                      stored == set("prompt", cache_key, response)
                  IN  IF response = "" \/ Len(strip(response)) < 10
                      THEN fallback
                      ELSE [value |-> Some(response), invoked |-> TRUE,
                            memory_cache |-> stored.memory_cache,
                            redis_store |-> stored.redis_store]

GenSubjects == {"Refund request"}
GenBodies == {"please help"}
SenderNames == {"Ann", "Bob"}
ContextLists == {<<>>, <<AllDocuments[2]>>}

\* One call of generate_response. seq alternates between calls, so that two
\* calls with the same arguments and result are still two steps.
LLMGenerateResponse ==
    \E s \in GenSubjects, b \in GenBodies, n \in SenderNames,
       d \in ContextLists, o \in ChainOutcomes :
        LET r == generate_response(s, b, n, d, o)
        IN  /\ memory_cache' = r.memory_cache
            /\ redis_store' = r.redis_store
            /\ gret' = Some([email_subject |-> s, email_body |-> b,
                             sender_name |-> n, context_documents |-> d,
                             o |-> o, value |-> r.value, invoked |-> r.invoked,
                             seq |-> IF gret = None THEN 0 ELSE 1 - gret[1].seq])
            /\ UNCHANGED <<now, redis_client, redis_up, written, ret>>
            /\ UNCHANGED <<llm, retriever, request, rret, chain>>
            /\ UNCHANGED wfvars

\* Two fragment lists that agree on the first 100 characters of each of their
\* first three fragments and differ beyond: in the rest of the first fragment
\* and in a fourth fragment.
LongText ==
    "Refunds are granted on request within the period stated on the invoice, counted from the day of purc"

SameKeyLists ==
    { << Document(LongText \o " (30 days)", "refunds.md"),
         AllDocuments[3], AllDocuments[4] >>,
      << Document(LongText \o " (14 days)", "refunds.md"),
         AllDocuments[3], AllDocuments[4], AllDocuments[5] >> }

\* One call of generate_response for the same email with one of SameKeyLists.
LLMGenerateSameKey ==
    \E s \in GenSubjects, b \in GenBodies, d \in SameKeyLists, o \in ChainOutcomes :
        LET r == generate_response(s, b, "Ann", d, o)
        IN  /\ memory_cache' = r.memory_cache
            /\ redis_store' = r.redis_store
            /\ gret' = Some([email_subject |-> s, email_body |-> b,
                             sender_name |-> "Ann", context_documents |-> d,
                             o |-> o, value |-> r.value, invoked |-> r.invoked,
                             seq |-> IF gret = None THEN 0 ELSE 1 - gret[1].seq])
            /\ UNCHANGED <<now, redis_client, redis_up, written, ret>>
            /\ UNCHANGED <<llm, retriever, request, rret, chain>>
            /\ UNCHANGED wfvars

(***************************************************************************)
(* process_emails                                                           *)
(***************************************************************************)
process_emails_result(n, st) ==
    IF n = "raised"
    THEN [success |-> FALSE, error |-> "Workflow execution failed"]
    ELSE [success |-> TRUE,
          total_emails |-> Len(st.emails),
          successful_responses |-> st.successful_responses,
          failed_responses |-> st.failed_responses,
          processing_log |-> st.processing_log,
          last_error |-> st.last_error]

ProcessEmails ==
    /\ node = "idle"
    /\ IF ~graph
       THEN /\ result' = Some([error |-> "Workflow not initialized"])
            /\ node' = "returned"
            /\ state' = state
       ELSE /\ state' = initial_state
            /\ node' = "fetch_emails"
            /\ result' = result
    /\ UNCHANGED <<graph, visited, calls, running>>
    /\ UNCHANGED <<cachevars, chainvars>>

FetchEmails ==
    /\ node = "fetch_emails"
    /\ \E r \in FetchOutcomes : Invoke("fetch_emails", _fetch_emails(state, r))

ProcessSingleEmail ==
    /\ node = "process_email"
    /\ \E mark \in MarkOutcomes :
          Invoke("process_email", _process_single_email(state, mark))

RetrievePolicies ==
    /\ node = "retrieve_policies"
    /\ \E r \in RetrieveOutcomes :
          Invoke("retrieve_policies", _retrieve_policies(state, r))

GenerateResponse ==
    /\ node = "generate_response"
    /\ \E r \in GenerateOutcomes :
          Invoke("generate_response", _generate_response(state, r))

SendResponse ==
    /\ node = "send_response"
    /\ \E r \in SendOutcomes : Invoke("send_response", _send_response(state, r))

NextEmail ==
    /\ node = "next_email"
    /\ Invoke("next_email", _next_email(state))

FinalizeProcessing ==
    /\ node = "finalize"
    /\ Invoke("finalize", _finalize_processing(state))

ProcessEmailsReturn ==
    /\ node \in {"END", "raised"}
    /\ result' = Some(process_emails_result(node, state))
    /\ node' = "returned"
    /\ UNCHANGED <<graph, state, visited, calls, running>>
    /\ UNCHANGED <<cachevars, chainvars>>

WorkflowInit ==
    /\ graph \in BOOLEAN
    /\ node = "idle"
    /\ state = initial_state
    /\ result = None
    /\ visited = <<>>
    /\ calls = <<>>
    /\ running = FALSE

\* The classifier, the retriever and the generator are constructed and not called.
ChainsIdle ==
    /\ llm = FALSE
    /\ retriever = FALSE
    /\ request = None
    /\ rret = None
    /\ chain = FALSE
    /\ gret = None

Init ==
    /\ WorkflowInit
    /\ CacheManagerInit
    /\ ~redis_client
    /\ ChainsIdle

Next ==
    \/ ProcessEmails
    \/ FetchEmails
    \/ ProcessSingleEmail
    \/ RetrievePolicies
    \/ GenerateResponse
    \/ SendResponse
    \/ NextEmail
    \/ FinalizeProcessing
    \/ ProcessEmailsReturn

Spec == Init /\ [][Next]_vars

\* run_daemon: self.running has been set, and the loop "while self.running"
\* calls process_emails whenever the processing interval has elapsed and
\* sleeps otherwise. node is "idle" at the head of the loop before the first
\* run, "sleeping" at the head of the loop after a run, and "stopped" once the
\* loop is left. The workflow is compiled.
DaemonInit ==
    /\ graph = TRUE
    /\ node = "idle"
    /\ state = initial_state
    /\ result = None
    /\ visited = <<>>
    /\ calls = <<>>
    /\ running = TRUE
    /\ CacheManagerInit
    /\ ~redis_client
    /\ ChainsIdle

\* The loop condition holds, the interval has elapsed, and process_emails is
\* called.
DaemonProcessEmails ==
    /\ running
    /\ node \in {"idle", "sleeping"}
    /\ state' = initial_state
    /\ node' = "fetch_emails"
    /\ result' = None
    /\ UNCHANGED <<graph, visited, calls, running>>
    /\ UNCHANGED <<cachevars, chainvars>>

\* process_emails has returned; control is back at the head of the loop, and
\* the histories start again for the next run.
DaemonLoop ==
    /\ node = "returned"
    /\ node' = "sleeping"
    /\ state' = initial_state
    /\ result' = None
    /\ visited' = <<>>
    /\ calls' = <<>>
    /\ UNCHANGED <<graph, running>>
    /\ UNCHANGED <<cachevars, chainvars>>

\* The loop condition is found false and the loop is left.
DaemonStop ==
    /\ node \in {"idle", "sleeping"}
    /\ ~running
    /\ node' = "stopped"
    /\ UNCHANGED <<graph, state, result, visited, calls, running>>
    /\ UNCHANGED <<cachevars, chainvars>>

\* SIGINT or SIGTERM is delivered: the handler runs in the main thread, at any
\* point of the loop or of a run, and only clears the flag.
_signal_handler ==
    /\ node # "stopped"
    /\ running
    /\ running' = FALSE
    /\ UNCHANGED <<graph, node, state, result, visited, calls>>
    /\ UNCHANGED <<cachevars, chainvars>>

DaemonNext ==
    \/ DaemonProcessEmails
    \/ FetchEmails
    \/ ProcessSingleEmail
    \/ RetrievePolicies
    \/ GenerateResponse
    \/ SendResponse
    \/ NextEmail
    \/ FinalizeProcessing
    \/ ProcessEmailsReturn
    \/ DaemonLoop
    \/ DaemonStop
    \/ _signal_handler

DaemonSpec == DaemonInit /\ [][DaemonNext]_vars

CacheInit ==
    /\ CacheManagerInit
    /\ WorkflowInit
    /\ graph
    /\ ChainsIdle

CacheNext ==
    \/ Get
    \/ Set
    \/ ClearCache
    \/ Tick
    \/ RedisDown
    \/ RedisUp
    \/ RedisExpire

CacheSpec == CacheInit /\ [][CacheNext]_vars

\* The cache over a Redis server on which stored text can become malformed.
MalformedInit ==
    /\ CacheInit
    /\ redis_client

MalformedNext ==
    \/ Get
    \/ Set
    \/ Tick
    \/ RedisCorrupt

MalformedSpec == MalformedInit /\ [][MalformedNext]_vars

\* One call on the classifier or the retriever, with its arguments drawn from
\* Requests, on an instance in any of its configurations.
\* _rank_documents_by_intent reads neither self.llm nor self.retriever and is
\* called only by a retriever that is set up, so it is run in one configuration.
RetrieverInit ==
    /\ WorkflowInit
    /\ graph
    /\ CacheManagerInit
    /\ ~redis_client
    /\ llm \in BOOLEAN
    /\ retriever \in BOOLEAN
    /\ request \in {Some(r) : r \in Requests}
    /\ request[1].op = "_rank_documents_by_intent" => (retriever /\ ~llm)
    /\ rret = None
    /\ chain = FALSE
    /\ gret = None

RetrieverNext ==
    \/ ClassifyIntent
    \/ RankDocumentsByIntent
    \/ RetrieveRelevantPolicies
    \/ RetrieveAgain

RetrieverSpec == RetrieverInit /\ [][RetrieverNext]_vars

\* Calls of generate_response on a generator whose chain is or is not set up,
\* over a cache whose clock advances and whose Redis server comes and goes.
GeneratorInit ==
    /\ WorkflowInit
    /\ graph
    /\ CacheManagerInit
    /\ llm = FALSE
    /\ retriever = FALSE
    /\ request = None
    /\ rret = None
    /\ chain \in BOOLEAN
    /\ gret = None

GeneratorNext ==
    \/ LLMGenerateResponse
    \/ Tick
    \/ RedisDown
    \/ RedisUp
    \/ RedisExpire

GeneratorSpec == GeneratorInit /\ [][GeneratorNext]_vars

\* The generator called for one email with fragment lists that share a key.
SameKeyInit ==
    /\ GeneratorInit
    /\ chain

SameKeyNext ==
    \/ LLMGenerateSameKey
    \/ Tick
    \/ RedisDown
    \/ RedisUp
    \/ RedisExpire

SameKeySpec == SameKeyInit /\ [][SameKeyNext]_vars

(***************************************************************************)
(* Properties of the cache                                                  *)
(***************************************************************************)
Unexpired(e) == now <= e.timestamp + cache_ttl_hours

\* C9: for every entry (a key set and not cleared since), get returns absent
\* if and only if now > created + ttl: the entry is never returned once
\* now > created + ttl, and is returned at every time up to and including
\* created + ttl.
C9_TTL ==
    \A p \in Prefixes, k \in LogicalKeys :
        LET e == written[_get_cache_key(p, k)]
        IN  e # None =>
              /\ (get(p, k).value = None) <=> (now > e[1].timestamp + cache_ttl_hours)
              /\ (ret # None /\ ret[1].op = "get" /\ ret[1].key = _get_cache_key(p, k)
                    /\ ret[1].value # None)
                    => ret[1].at <= e[1].timestamp + cache_ttl_hours

\* A get on the last instant of an entry's life has returned it.
C9_Witness ==
    \E ck \in CacheKeys :
        /\ written[ck] # None
        /\ now = written[ck][1].timestamp + cache_ttl_hours
        /\ ret # None
        /\ ret[1].op = "get"
        /\ ret[1].key = ck
        /\ ret[1].value = Some(written[ck][1].value)
        /\ ret[1].at = now

\* C10: after set(ns, k, v), a get(ns, k) made before the entry expires
\* returns v, whatever the durable tier did in between (absent, reachable,
\* gone down or come back).
C10_SetThenGet ==
    \A p \in Prefixes, k \in LogicalKeys :
        LET e == written[_get_cache_key(p, k)]
        IN  (e # None /\ Unexpired(e[1])) => get(p, k).value = Some(e[1].value)


\* C11: an outage of the durable tier never fails a cache operation: while
\* Redis raises on every call, get, set and clear_cache return without raising,
\* set stores the value in the volatile tier and get answers from the
\* volatile tier.
C11_OutageNeverFails ==
    /\ ret # None => ret[1].exc = None
    /\ (redis_client /\ ~redis_up) =>
          /\ clear_cache.exc = None
          /\ clear_cache.memory_cache = EmptyDict
          /\ \A p \in Prefixes, k \in LogicalKeys :
                LET ck == _get_cache_key(p, k)
                IN  /\ get(p, k).exc = None
                    /\ (ck \in DOMAIN memory_cache
                          /\ now <= memory_cache[ck].timestamp + cache_ttl_hours)
                          => get(p, k).value = Some(memory_cache[ck].value)
                    /\ \A v \in Values :
                          /\ set(p, k, v).exc = None
                          /\ ck \in DOMAIN set(p, k, v).memory_cache
                          /\ set(p, k, v).memory_cache[ck] =
                                [value |-> v, timestamp |-> now]

\* During an outage a get has returned a value that only the volatile tier holds.
C11_Witness ==
    /\ redis_client /\ ~redis_up
    /\ ret # None
    /\ ret[1].op = "get"
    /\ ret[1].value # None
    /\ ret[1].key \notin DOMAIN redis_store
    /\ ret[1].exc = None

\* A step that is one call of op on the cache (ret receives a new record).
CacheCall(op) == ret' # ret /\ ret' # None /\ ret'[1].op = op

\* C24: with a durable tier configured and reachable, set writes the entry to
\* both tiers, get consults the durable tier first and falls back to the
\* volatile tier, and a get that hits in the durable tier leaves that entry in
\* the volatile tier as well.
C24_DurableHitFillsVolatile ==
    [][\A ck \in CacheKeys :
        /\ (CacheCall("set") /\ ret'[1].key = ck /\ redis_client /\ redis_up)
              => /\ ck \in DOMAIN memory_cache' /\ ck \in DOMAIN redis_store'
                 /\ json_loads(redis_store'[ck].data) = memory_cache'[ck]
        /\ (CacheCall("get") /\ ret'[1].key = ck /\ ret'[1].redis = "hit")
              => /\ ret'[1].value = Some(json_loads(redis_store[ck].data).value)
                 /\ ck \in DOMAIN memory_cache'
                 /\ memory_cache'[ck] = json_loads(redis_store[ck].data)
        /\ (CacheCall("get") /\ ret'[1].key = ck /\ ret'[1].redis # "hit"
               /\ ck \in DOMAIN memory_cache
               /\ ~_is_expired(memory_cache[ck].timestamp))
              => ret'[1].value = Some(memory_cache[ck].value)
      ]_vars

\* The server still answers for the key: it holds it and the time-to-live
\* given to setex has not run out.
DurableHolds(ck) ==
    ck \in DOMAIN redis_store /\ now < redis_store[ck].expire_at

\* The step is a get of ck that finds an expired entry, in the volatile tier or
\* in the durable one.
GetFindsExpired(ck) ==
    /\ CacheCall("get")
    /\ ret'[1].key = ck
    /\ \/ ck \in DOMAIN memory_cache /\ _is_expired(memory_cache[ck].timestamp)
       \/ ret'[1].redis = "expired"

\* After a get that found an expired entry no tier holds an expired entry for
\* the key: the expired entry is deleted from the tier it was found in (what
\* the volatile tier may still hold is a younger entry), and the get returned
\* None when the volatile entry was the expired one.
ExpiredReadDeletes(ck) ==
    GetFindsExpired(ck)
      => /\ (ck \in DOMAIN memory_cache /\ _is_expired(memory_cache[ck].timestamp))
              => (ck \notin DOMAIN memory_cache' /\ ret'[1].value = None)
         /\ (ret'[1].redis = "expired") => ck \notin DOMAIN redis_store'
         /\ (redis_client /\ redis_up) => ck \notin DOMAIN redis_store'
         /\ ~DurableHolds(ck)'
         /\ (ck \in DOMAIN memory_cache')
              => ~_is_expired(memory_cache'[ck].timestamp)

\* The step takes ck out of the volatile tier, or makes the durable tier stop
\* holding it.
LeavesVolatile(ck) == ck \in DOMAIN memory_cache /\ ck \notin DOMAIN memory_cache'
LeavesDurable(ck) ==
    \/ DurableHolds(ck) /\ ~DurableHolds(ck)'
    \/ ck \in DOMAIN redis_store /\ ck \notin DOMAIN redis_store'

\* C25 as stated: a get that finds an expired entry treats it as absent and
\* deletes it, so that afterwards no tier holds it; and an entry leaves a tier
\* only in such a get or in a clear.
C25_OnlyReadsRemove ==
    [][\A ck \in CacheKeys :
        /\ ExpiredReadDeletes(ck)
        /\ (LeavesVolatile(ck) \/ LeavesDurable(ck))
              => (GetFindsExpired(ck) \/ CacheCall("clear_cache"))
      ]_vars

\* C25 (amended): a get that finds an expired entry treats it as absent and
\* deletes it, so that afterwards no tier holds it; an entry leaves the
\* volatile tier only in such a get or in a clear, while the durable tier also
\* drops an entry by itself, without any call on the cache, once the
\* time-to-live given to setex has run out.
C25_LazyExpiry ==
    [][\A ck \in CacheKeys :
        /\ ExpiredReadDeletes(ck)
        /\ LeavesVolatile(ck)
              => (GetFindsExpired(ck) \/ CacheCall("clear_cache"))
        /\ LeavesDurable(ck)
              => \/ GetFindsExpired(ck)
                 \/ CacheCall("clear_cache")
                 \/ ret' = ret /\ now' >= redis_store[ck].expire_at
      ]_vars

\* A get has just found the entry written earlier expired in both tiers and
\* returned None; no tier holds the key any more.
C25_Witness ==
    \E ck \in CacheKeys :
        /\ ret # None
        /\ ret[1].op = "get"
        /\ ret[1].key = ck
        /\ ret[1].redis = "expired"
        /\ ret[1].value = None
        /\ ret[1].at = now
        /\ written[ck] # None
        /\ _is_expired(written[ck][1].timestamp)
        /\ ck \notin DOMAIN memory_cache
        /\ ck \notin DOMAIN redis_store

\* The server answers for ck with text that get cannot use.
HoldsMalformed(ck) ==
    /\ redis_client /\ redis_up
    /\ ck \in DOMAIN redis_store
    /\ redis_store[ck].data \in MalformedTexts

\* The text decodes to an object whose timestamp cannot be parsed.
UnparsableTimestamp(text) ==
    /\ text[1] = "json"
    /\ "timestamp" \in DOMAIN json_loads(text)
    /\ json_loads(text).timestamp < 0

\* The unexpired entry of the volatile tier for ck, None without one.
VolatileEntry(ck) ==
    IF ck \in DOMAIN memory_cache /\ ~_is_expired(memory_cache[ck].timestamp)
    THEN Some(memory_cache[ck].value) ELSE None

\* C26 as stated: a malformed or undecodable stored value (undecodable record,
\* missing fields, unparsable timestamp) makes get return absent for that key
\* without raising.
C26_MalformedIsAbsent ==
    \A p \in Prefixes, k \in LogicalKeys :
        HoldsMalformed(_get_cache_key(p, k))
          => (get(p, k).exc = None /\ get(p, k).value = None)

\* C26 (amended): a malformed or undecodable value in the durable tier never
\* makes get raise; the durable tier counts as a miss for that key, and get
\* answers from the volatile tier: its unexpired entry when it holds one,
\* absent otherwise. A record whose timestamp cannot be parsed counts as
\* expired and is deleted from the durable tier.
C26_MalformedIsDurableMiss ==
    /\ \A p \in Prefixes, k \in LogicalKeys :
          LET ck == _get_cache_key(p, k)
          IN  HoldsMalformed(ck)
                => /\ get(p, k).exc = None
                   /\ get(p, k).value = VolatileEntry(ck)
                   /\ get(p, k).redis \in {"malformed", "expired"}
                   /\ UnparsableTimestamp(redis_store[ck].data)
                        => /\ get(p, k).redis = "expired"
                           /\ ck \notin DOMAIN get(p, k).redis_store
    /\ (ret # None /\ ret[1].op = "get" /\ ret[1].redis = "malformed")
          => ret[1].exc = None

\* A get has just answered from the volatile tier for a key under which the
\* server holds malformed text.
C26_Witness ==
    /\ ret # None
    /\ ret[1].op = "get"
    /\ ret[1].redis = "malformed"
    /\ ret[1].value # None
    /\ ret[1].exc = None
    /\ ret[1].at = now
    /\ HoldsMalformed(ret[1].key)

\* C38: after any sequence of set, get and clear operations interleaved with
\* durable-tier outages and recoveries, whenever both tiers hold an unexpired
\* entry for the same key they hold the same value, so get never returns a
\* value older than the most recent completed set for that key.
C38_TiersAgree ==
    \A p \in Prefixes, k \in LogicalKeys :
        LET ck == _get_cache_key(p, k)
        IN  /\ (/\ ck \in DOMAIN memory_cache
                /\ ck \in DOMAIN redis_store
                /\ ~_is_expired(memory_cache[ck].timestamp)
                /\ ~_is_expired(json_loads(redis_store[ck].data).timestamp))
                  => json_loads(redis_store[ck].data).value = memory_cache[ck].value
            /\ (written[ck] # None /\ get(p, k).value # None)
                  => get(p, k).value = Some(written[ck][1].value)

\* C39: after clear_cache has returned, get returns absent for every namespace
\* and key until a new set for that key completes, also when the durable tier
\* failed during the clear (written is emptied by clear_cache and filled by
\* set, so a key with no written value has had no set since the last clear).
C39_ClearIsTotal ==
    \A p \in Prefixes, k \in LogicalKeys :
        (written[_get_cache_key(p, k)] = None) => (get(p, k).value = None)

(***************************************************************************)
(* Properties of the classifier and the retriever (RetrieverSpec)           *)
(***************************************************************************)
Answered(op) == request # None /\ request[1].op = op /\ rret # None

\* At least one intent keyword occurs in the lower-cased subject + body.
HasKeyword(email_subject, email_body) ==
    \E i \in DOMAIN INTENTS :
        KeywordScore(INTENTS[i].keywords, lower(email_subject \o " " \o email_body)) > 0

\* C16: whenever at least one intent keyword occurs in the lower-cased
\* subject+body, classify decides from keyword scores alone: the generative
\* model is not called and the result is the same whether or not a generative
\* fallback is configured; subject "Refund request", body "please help"
\* classifies as billing.
C16_KeywordsDecide ==
    (Answered("classify_intent")
      /\ HasKeyword(request[1].email_subject, request[1].email_body)) =>
        /\ ~rret[1].llm_called
        /\ \A l \in BOOLEAN, o \in LLMIntentOutcomes :
              classify_intent(l, request[1].email_subject,
                              request[1].email_body, o).intent = rret[1].intent
        /\ (request[1].email_subject = "Refund request"
              /\ request[1].email_body = "please help") => rret[1].intent = "billing"

\* A classifier with a model configured has classified "Refund request" /
\* "please help" as billing without calling the model.
C16_Witness ==
    /\ Answered("classify_intent")
    /\ llm
    /\ request[1].email_subject = "Refund request"
    /\ request[1].email_body = "please help"
    /\ rret = Some([intent |-> "billing", llm_called |-> FALSE])

\* C27: in the keyword pass, classify returns the intent with the highest
\* nonzero keyword count over the lower-cased subject+body, and when several
\* intents share the highest count it returns the one declared first in the
\* order billing, technical_support, feature_request, general.
C27_HighestCountFirstDeclared ==
    (Answered("classify_intent")
      /\ HasKeyword(request[1].email_subject, request[1].email_body)) =>
        LET text == lower(request[1].email_subject \o " " \o request[1].email_body)
            count == [i \in DOMAIN INTENTS |-> KeywordScore(INTENTS[i].keywords, text)]
        IN  /\ [i \in DOMAIN INTENTS |-> INTENTS[i].intent]
                  = <<"billing", "technical_support", "feature_request", "general">>
            /\ \E w \in DOMAIN INTENTS :
                  /\ rret[1].intent = INTENTS[w].intent
                  /\ count[w] > 0
                  /\ \A j \in DOMAIN INTENTS :
                        /\ count[j] <= count[w]
                        /\ (count[j] = count[w]) => w <= j

\* "Refund request" / "nothing here" has one keyword of billing ("refund") and
\* one of feature_request ("request"), and was classified as billing.
C27_Witness ==
    /\ Answered("classify_intent")
    /\ request[1].email_subject = "Refund request"
    /\ request[1].email_body = "nothing here"
    /\ KeywordScore(KeywordsOf("billing"), "refund request nothing here") = 1
    /\ KeywordScore(KeywordsOf("feature_request"), "refund request nothing here") = 1
    /\ rret[1].intent = "billing"
    /\ ~rret[1].llm_called

\* What classify returns after the keyword pass found nothing, when the answer
\* of the model is compared as answer: the model is called once if configured,
\* answer is returned if the call did not raise and answer is a category name,
\* and general is returned otherwise.
FallbackReturns(answer) ==
    LET accepted == llm /\ ~request[1].o.raised /\ answer \in IntentNames
    IN  /\ rret[1].llm_called = llm
        /\ rret[1].intent = IF accepted THEN answer ELSE "general"

\* C28 as stated: when no keyword matches any intent, classify makes a single
\* generative-model call and returns the model's answer only if it is an exact
\* case-insensitive match to one of the four category names; if the model is
\* not configured, raises, or answers anything else, classify returns general.
\* The result is always one of the four category names.
C28_ExactMatchOnly ==
    Answered("classify_intent") =>
        /\ rret[1].intent \in IntentNames
        /\ ~HasKeyword(request[1].email_subject, request[1].email_body)
              => FallbackReturns(lower(request[1].o.content))

\* C28 (amended): when no keyword matches any intent, classify makes a single
\* generative-model call and returns the model's answer, stripped of
\* surrounding whitespace and lower-cased, only if that is exactly one of the
\* four category names; if the model is not configured, raises, or answers
\* anything else, classify returns general. The result is always one of the
\* four category names.
C28_StrippedMatchOnly ==
    Answered("classify_intent") =>
        /\ rret[1].intent \in IntentNames
        /\ ~HasKeyword(request[1].email_subject, request[1].email_body)
              => FallbackReturns(lower(strip(request[1].o.content)))

\* With no keyword in "Hello" / "nothing here", the model was called, answered
\* " Technical_Support\n", and classify returned technical_support.
C28_Witness ==
    /\ Answered("classify_intent")
    /\ llm
    /\ request[1].email_subject = "Hello"
    /\ request[1].email_body = "nothing here"
    /\ ~request[1].o.raised
    /\ request[1].o.content # lower(request[1].o.content)
    /\ request[1].o.content # strip(request[1].o.content)
    /\ rret = Some([intent |-> "technical_support", llm_called |-> TRUE])

\* C14: re-ranking orders candidates by affinity score descending, where score =
\* number of the intent's keywords present in the fragment text, plus 2 if any
\* intent keyword appears in the fragment's filename metadata: in the output
\* every fragment with a strictly higher score precedes every fragment with a
\* lower score, and for ["no match", "billing refund"] and intent billing the
\* second fragment ranks first.
C14_RankedByScore ==
    Answered("_rank_documents_by_intent") =>
        LET intent_keywords == KeywordsOf(request[1].intent)
            documents == request[1].documents
            ranked == rret[1]
            score == [i \in DOMAIN ranked |-> DocScore(ranked[i], intent_keywords)]
        IN  /\ Len(ranked) = Min(top_k_docs, Len(documents))
            /\ \A i, j \in DOMAIN ranked : score[i] > score[j] => i < j
            /\ (/\ request[1].intent = "billing"
                 /\ Len(documents) = 2
                 /\ documents[1].page_content = "no match"
                 /\ documents[2].page_content = "billing refund")
                => ranked = <<documents[2], documents[1]>>

\* Three candidates given in ascending order of score (0, 2 and 1 + 2 for the
\* filename) have been ranked in descending order.
C14_Witness ==
    /\ Answered("_rank_documents_by_intent")
    /\ request[1].intent = "billing"
    /\ request[1].documents = <<AllDocuments[1], AllDocuments[2], AllDocuments[3]>>
    /\ rret = Some(<<AllDocuments[3], AllDocuments[2], AllDocuments[1]>>)

\* The position of a document in a list of distinct documents
IndexIn(l, d) == CHOOSE i \in DOMAIN l : l[i] = d

\* C15: re-ranking is a stable sort: any two candidate fragments with equal
\* affinity score appear in the ranked output in the same relative order as in
\* the candidate list.
C15_Stable ==
    Answered("_rank_documents_by_intent") =>
        LET intent_keywords == KeywordsOf(request[1].intent)
            documents == request[1].documents
            ranked == rret[1]
            score == [i \in DOMAIN ranked |-> DocScore(ranked[i], intent_keywords)]
        IN  \A i, j \in DOMAIN ranked :
                (i < j /\ score[i] = score[j])
                => /\ ranked[i] \in Range(documents)
                   /\ ranked[j] \in Range(documents)
                   /\ IndexIn(documents, ranked[i]) < IndexIn(documents, ranked[j])

\* Two candidates of equal score, followed by one of higher score, have been
\* ranked: the higher one moved to the front and the two kept their order.
C15_Witness ==
    /\ Answered("_rank_documents_by_intent")
    /\ request[1].intent = "billing"
    /\ request[1].documents = <<AllDocuments[2], AllDocuments[4], AllDocuments[3]>>
    /\ rret = Some(<<AllDocuments[3], AllDocuments[2], AllDocuments[4]>>)

\* C29: the ranked list that the re-ranking step of retrieve produces never has
\* more fragments than top_k_docs, it is exactly the first top_k_docs entries
\* of the score-sorted candidate list (all of them when there are fewer), and
\* every fragment in it is one of the candidates returned by the index, none
\* of them twice; a list that retrieve returns is within the same limit.
C29_TopKOfCandidates ==
    /\ Answered("_rank_documents_by_intent") =>
          LET documents == request[1].documents
              ranked == rret[1]
              intent_keywords == KeywordsOf(request[1].intent)
              scored_docs == [i \in DOMAIN documents |->
                                 [score |-> DocScore(documents[i], intent_keywords),
                                  doc |-> documents[i]]]
              sorted == sort_reverse(scored_docs)
          IN  /\ Len(ranked) <= top_k_docs
              /\ Len(ranked) = Min(top_k_docs, Len(documents))
              /\ Len(sorted) = Len(documents)
              /\ \A i, j \in DOMAIN sorted : i < j => sorted[i].score >= sorted[j].score
              /\ \A i \in DOMAIN ranked : ranked[i] = sorted[i].doc
              /\ \A i \in DOMAIN ranked : \E j \in DOMAIN documents : ranked[i] = documents[j]
              /\ \A i, j \in DOMAIN ranked : i # j => ranked[i] # ranked[j]
    /\ (Answered("retrieve_relevant_policies") /\ rret[1].exc = None) =>
          /\ Len(rret[1].docs) <= top_k_docs
          /\ \A i \in DOMAIN rret[1].docs :
                \E j \in DOMAIN request[1].search.documents :
                    rret[1].docs[i] = request[1].search.documents[j]

\* More candidates than top_k_docs were ranked, and exactly top_k_docs of them
\* came back.
C29_Witness ==
    /\ Answered("_rank_documents_by_intent")
    /\ Len(request[1].documents) > top_k_docs
    /\ Len(rret[1]) = top_k_docs
    /\ \E i \in DOMAIN request[1].documents :
          \A j \in DOMAIN rret[1] : rret[1][j] # request[1].documents[i]

\* C30: retrieve is served from the cache on a hit: after a retrieve that
\* produced a ranked list (the index is initialised and returns candidates), a
\* second retrieve with the same subject, body and resolved intent made before
\* expiry returns the same fragment list and the same resolved intent without
\* querying the vector index again; when no intent is supplied the resolved
\* intent is the classifier's result.
C30_ServedFromCache ==
    (Answered("retrieve_relevant_policies") /\ Len(rret) = 2 /\ retriever
       /\ ~request[1].search.raised /\ request[1].search.documents # <<>>) =>
        LET a == request[1]
            resolved == IF Truthy(a.intent) THEN a.intent[1]
                        ELSE classify_intent(llm, a.email_subject,
                                             a.email_body, a.o).intent
        IN  /\ rret[1].exc = None
            /\ rret[1].searched
            /\ rret[1].docs = _rank_documents_by_intent(a.search.documents, resolved)
            /\ rret[1].intent = resolved
            /\ rret[2].exc = None
            /\ ~rret[2].searched
            /\ rret[2].docs = rret[1].docs
            /\ rret[2].intent = rret[1].intent

\* C17: retrieve never raises and returns an empty fragment list when the index
\* is unavailable (not initialized, or the search raises) or yields nothing,
\* and in each of these cases the intent it returns is the resolved intent: the
\* caller-supplied intent when one was given, otherwise the classifier's
\* result for the subject and body.
C17_RetrieveNeverRaises ==
    Answered("retrieve_relevant_policies") =>
        LET a == request[1]
            resolved == IF Truthy(a.intent) THEN a.intent[1]
                        ELSE classify_intent(llm, a.email_subject,
                                             a.email_body, a.o).intent
        IN  /\ rret[1].exc = None
            /\ (~retriever \/ a.search.raised \/ a.search.documents = <<>>) =>
                  /\ rret[1].docs = <<>>
                  /\ rret[1].intent = resolved

(***************************************************************************)
(* Properties of the response generator (GeneratorSpec)                     *)
(***************************************************************************)
GenArgs ==
    [email_subject : GenSubjects, email_body : GenBodies,
     sender_name : SenderNames, context_documents : ContextLists]

ArgsOf(g) ==
    [email_subject |-> g.email_subject, email_body |-> g.email_body,
     sender_name |-> g.sender_name, context_documents |-> g.context_documents]

Generated == gret' # gret

\* The values the two tiers hold
CachedValues ==
    {memory_cache[k].value : k \in DOMAIN memory_cache}
    \cup {json_loads(redis_store[k].data).value : k \in DOMAIN redis_store}

\* C12: if the generation call raises, generate returns the fixed fallback text
\* and the cache is not updated with it: no tier gets an entry for the call's
\* key or holds the fallback, and a call with identical inputs made next
\* invokes the generation service again (shown for a service that raises
\* again; whether the chain is invoked is decided before its outcome is known).
C12_FallbackNotCached ==
    [][(Generated /\ gret'[1].invoked /\ gret'[1].o.raised) =>
          \A a \in GenArgs :
              a = ArgsOf(gret'[1]) =>
                LET cache_key == _get_cache_key("prompt",
                        _create_cache_key(a.email_subject, a.email_body,
                                          a.context_documents))
                    fallback == _generate_fallback_response(a.sender_name)
                IN  /\ gret'[1].value = Some(fallback)
                    /\ cache_key \in DOMAIN memory_cache' =>
                          /\ cache_key \in DOMAIN memory_cache
                          /\ memory_cache'[cache_key] = memory_cache[cache_key]
                    /\ cache_key \in DOMAIN redis_store' =>
                          /\ cache_key \in DOMAIN redis_store
                          /\ redis_store'[cache_key] = redis_store[cache_key]
                    /\ fallback \notin CachedValues'
                    /\ \A o \in {c \in ChainOutcomes : c.raised} :
                          generate_response(a.email_subject, a.email_body,
                              a.sender_name, a.context_documents, o)'.invoked
       ]_vars

\* The chain was invoked, raised, and generate returned the fallback while the
\* cache holds nothing.
C12_Witness ==
    /\ gret # None
    /\ gret[1].invoked
    /\ gret[1].o.raised
    /\ gret[1].value = Some(_generate_fallback_response(gret[1].sender_name))
    /\ memory_cache = EmptyDict
    /\ redis_client /\ redis_up /\ redis_store = EmptyDict

\* C13: generate never leaves the pipeline without a reply: whenever the
\* sanitized result is empty or shorter than the minimum length, or the
\* generative call raises or is unavailable, generate returns the fixed
\* non-empty fallback reply (never an absent value), and the fallback is never
\* written to the cache.
C13_AlwaysAReply ==
    gret # None =>
        LET g == gret[1]
            fallback == _generate_fallback_response(g.sender_name)
            unusable == \/ g.o.raised
                        \/ Len(strip(parse(g.o.content))) < 10
        IN  /\ Truthy(g.value)
            /\ (~chain \/ (g.invoked /\ unusable)) => g.value = Some(fallback)
            /\ fallback # ""
            /\ fallback \notin CachedValues

\* The first three fragment texts of a list, each cut to 100 characters.
TopFragments(docs) ==
    [i \in 1..Min(3, Len(docs)) |->
        SubSeq(docs[i].page_content, 1, Min(100, Len(docs[i].page_content)))]

\* The call recorded in g returned a reply that is not the fallback.
SuccessfulReply(g) ==
    /\ Truthy(g.value)
    /\ g.value # Some(_generate_fallback_response(g.sender_name))

\* The key under which the cache holds the reply of the call recorded in g.
ReplyKey(g) ==
    _get_cache_key("prompt", _create_cache_key(g.email_subject, g.email_body,
                                                g.context_documents))

\* C31: a successful (non-fallback) reply is stored in the cache before generate
\* returns it, and a later generate whose subject, body and first three
\* fragment texts (truncated) are the same returns that cached reply verbatim
\* without invoking the generation service, until the entry expires.
C31_CachedReplyReused ==
    [][Generated =>
          /\ (gret'[1].invoked /\ SuccessfulReply(gret'[1])) =>
                /\ ReplyKey(gret'[1]) \in DOMAIN memory_cache'
                /\ memory_cache'[ReplyKey(gret'[1])]
                      = [value |-> gret'[1].value[1], timestamp |-> now]
                /\ (redis_client /\ redis_up) =>
                      /\ ReplyKey(gret'[1]) \in DOMAIN redis_store'
                      /\ json_loads(redis_store'[ReplyKey(gret'[1])].data)
                            = memory_cache'[ReplyKey(gret'[1])]
          /\ (/\ gret # None
              /\ SuccessfulReply(gret[1])
              /\ gret'[1].email_subject = gret[1].email_subject
              /\ gret'[1].email_body = gret[1].email_body
              /\ TopFragments(gret'[1].context_documents)
                    = TopFragments(gret[1].context_documents)
              /\ ReplyKey(gret[1]) \in DOMAIN memory_cache
              /\ ~_is_expired(memory_cache[ReplyKey(gret[1])].timestamp))
                => /\ gret'[1].value = gret[1].value
                   /\ ~gret'[1].invoked
      ]_vars

\* A call with one fragment list has just been answered, without invoking the
\* chain, with the reply cached for the other list of the same key; the chain
\* would have written something else.
C31_Witness ==
    /\ gret # None
    /\ ~gret[1].invoked
    /\ SuccessfulReply(gret[1])
    /\ Len(gret[1].context_documents) = 4
    /\ ReplyKey(gret[1]) \in DOMAIN memory_cache
    /\ memory_cache[ReplyKey(gret[1])].value = gret[1].value[1]
    /\ \E d \in SameKeyLists :
          /\ d # gret[1].context_documents
          /\ TopFragments(d) = TopFragments(gret[1].context_documents)
    /\ ~gret[1].o.raised
    /\ Len(gret[1].o.content) >= 10
    /\ gret[1].o.content # ""

\* C40: the reply generate_response returns for one sender name does not depend
\* on an earlier call made with another sender name: a call that differs from
\* the previous, successful call only in sender_name is not answered with the
\* reply that was produced and cached for the other sender.
C40_NoReplyAcrossSenders ==
    [][(/\ Generated
        /\ gret # None
        /\ gret[1].invoked
        /\ SuccessfulReply(gret[1])
        /\ gret'[1].email_subject = gret[1].email_subject
        /\ gret'[1].email_body = gret[1].email_body
        /\ gret'[1].context_documents = gret[1].context_documents
        /\ gret'[1].sender_name # gret[1].sender_name)
          => gret'[1].invoked
      ]_vars

(***************************************************************************)
(* Properties of the workflow                                               *)
(***************************************************************************)
Returned == result # None
HasCounts(r) == "total_emails" \in DOMAIN r
SummaryLines(log) == SelectSeq(log, LAMBDA l : l.kind = "summary")
CallsOf(op) == SelectSeq(calls, LAMBDA c : c.op = op)
NodesVisited == [p \in 1..Len(visited) |-> visited[p].node]
IsPrefix(s, t) == Len(s) <= Len(t) /\ SubSeq(t, 1, Len(s)) = s
Summary(s, f, t) == [kind |-> "summary", successful |-> s, failed |-> f, total |-> t]

\* The transport was asked to send once for each of two fetched emails, and
\* reported success for one and success=false for the other.
OneSentOneRefused ==
    LET sends == CallsOf("send_response_email")
    IN  /\ Len(state.emails) = 2
        /\ Len(sends) = 2
        /\ sends[1].email # sends[2].email
        /\ {sends[1].outcome, sends[2].outcome} = {"true", "false"}

\* C1: a run that fetches 2 emails, one sent and one refused by the transport
\* (success=false), returns successful_responses = 1, failed_responses = 1,
\* total_emails = 2 and a log with exactly one summary line,
\* "1 successful, 1 failed out of 2 emails".
C1_EndToEnd ==
    (Returned /\ OneSentOneRefused) =>
        /\ HasCounts(result[1])
        /\ result[1].successful_responses = 1
        /\ result[1].failed_responses = 1
        /\ result[1].total_emails = 2
        /\ SummaryLines(result[1].processing_log) = <<Summary(1, 1, 2)>>

FetchedNothing ==
    /\ calls # <<>>
    /\ calls[1] = Call("fetch_unread_emails", 0, "ok")
    /\ state.emails = <<>>

\* C2: when fetch returns zero emails the run goes straight from fetch_emails
\* to finalize: no other node runs, no collaborator other than fetch is called,
\* and the result reports total_emails = 0 and both counters 0.
C2_EmptyBatch ==
    FetchedNothing =>
        /\ IsPrefix(NodesVisited, <<"fetch_emails", "finalize">>)
        /\ node \in {"finalize", "END", "returned"}
        /\ Len(calls) = 1
        /\ Returned =>
              /\ HasCounts(result[1])
              /\ result[1].total_emails = 0
              /\ result[1].successful_responses = 0
              /\ result[1].failed_responses = 0

C2_Witness ==
    FetchedNothing /\ Returned /\ NodesVisited = <<"fetch_emails", "finalize">>

\* Emails at positions after the cursor have not been processed yet.
MoreRemain(st) == st.processed_count + 1 < Len(st.emails)

C3_Step ==
    /\ node = "fetch_emails" =>
          node' = IF state'.emails = <<>> THEN "finalize" ELSE "process_email"
    /\ node = "process_email" => node' = "retrieve_policies"
    /\ node = "retrieve_policies" => node' = "generate_response"
    /\ node = "generate_response" => node' = "send_response"
    /\ node = "send_response" =>
          node' = IF MoreRemain(state) THEN "next_email" ELSE "finalize"
    /\ node = "next_email" => node' = "process_email"
    /\ node = "finalize" => node' = "END"

\* C3: the run takes only the transitions FETCH->FINALIZE (no emails),
\* FETCH->PROCESS_ONE (emails present), PROCESS_ONE->RETRIEVE->GENERATE->SEND,
\* SEND->ADVANCE->PROCESS_ONE only while a fetched email is still unprocessed,
\* and SEND->FINALIZE when none remain; FINALIZE is terminal.
C3_Transitions == [][C3_Step]_vars

\* C4: whatever the collaborators do, no exception leaves a node, and
\* process_emails returns counts and a log; an error-only result is returned
\* only when the run could not start (the graph was never compiled).
C4_NoEscape ==
    /\ node # "raised"
    /\ Returned =>
          /\ graph => /\ HasCounts(result[1])
                      /\ result[1].success
                      /\ result[1].processing_log # <<>>
          /\ ~HasCounts(result[1]) => (~graph /\ visited = <<>>)

Raised(op) == \E i \in 1..Len(calls) : calls[i].op = op /\ calls[i].outcome = "raise"

C4_Witness ==
    /\ Returned
    /\ HasCounts(result[1])
    /\ Raised("mark_as_read")
    /\ Raised("retrieve_relevant_policies")
    /\ Raised("generate_response")
    /\ Raised("send_response_email")

\* Email j of the batch was taken through process_email, retrieve_policies,
\* generate_response and send_response, in this order and as the current email.
TakenThrough(j) ==
    \E p \in 1..Len(visited) :
        /\ p + 3 <= Len(visited)
        /\ <<visited[p].node, visited[p+1].node, visited[p+2].node, visited[p+3].node>>
              = <<"process_email", "retrieve_policies", "generate_response", "send_response">>
        /\ \A q \in p..(p + 3) : visited[q].email = Some(state.emails[j])

ItemFailed(j) ==
    \E i \in 1..Len(calls) :
        /\ calls[i].email = j
        /\ calls[i].op \in {"retrieve_relevant_policies", "generate_response",
                            "send_response_email"}
        /\ calls[i].outcome \in {"raise", "false"}

\* C5: the failure of one item never aborts the run: when the run has returned,
\* every fetched email, in particular every one after a failed item, has been
\* taken through PROCESS_ONE, RETRIEVE, GENERATE and SEND.
C5_LaterItemsProcessed ==
    (Returned /\ HasCounts(result[1])) =>
        \A j \in 1..Len(state.emails) : TakenThrough(j)

C5_Witness ==
    /\ Returned
    /\ Len(state.emails) = 2
    /\ ItemFailed(1)
    /\ TakenThrough(2)

FetchRaised == calls # <<>> /\ calls[1] = Call("fetch_unread_emails", 0, "raise")

\* C6: if the fetch call raises, the run does not fail: the error is recorded
\* as last_error, the email list is empty, the run goes from fetch_emails to
\* finalize, and the result reports total_emails = 0 with both counters 0.
C6_FetchRaises ==
    FetchRaised =>
        /\ state.last_error = Some("Failed to fetch emails")
        /\ state.emails = <<>>
        /\ IsPrefix(NodesVisited, <<"fetch_emails", "finalize">>)
        /\ node \in {"finalize", "END", "returned"}
        /\ Returned =>
              /\ HasCounts(result[1])
              /\ result[1].success
              /\ result[1].last_error = Some("Failed to fetch emails")
              /\ result[1].total_emails = 0
              /\ result[1].successful_responses = 0
              /\ result[1].failed_responses = 0

C6_Witness == FetchRaised /\ Returned

\* The position of email e in the fetched list.
IndexOf(e) == CHOOSE j \in 1..Len(state.emails) : state.emails[j] = e

\* C7: one item is run to completion before the next starts: the steps that
\* work on one email are consecutive (process, retrieve, generate, send), and
\* process_email selects email i+1 only after send_response has run for email i.
C7_OneItemAtATime ==
    /\ \A p, q \in 1..Len(visited) :
          (p < q /\ visited[p].email # None /\ visited[p].email = visited[q].email)
              => \A r \in p..q : visited[r].email = visited[p].email
    /\ \A q \in 1..Len(visited) :
          (visited[q].node = "process_email" /\ visited[q].email # None
              /\ IndexOf(visited[q].email[1]) > 1)
              => \E p \in 1..(q - 1) :
                    /\ visited[p].node = "send_response"
                    /\ visited[p].email =
                          Some(state.emails[IndexOf(visited[q].email[1]) - 1])

C7_Witness ==
    /\ Len(state.emails) = 2
    /\ \E q \in 1..Len(visited) :
          /\ visited[q].node = "send_response"
          /\ visited[q].email = Some(state.emails[2])

\* C8: finalize appends exactly one summary line, built from the final
\* successful_responses, failed_responses and number of fetched emails, and
\* process_emails reports the state finalize returned (same counts, same log).
C8_Summary ==
    /\ node = "END" =>
          /\ SummaryLines(state.processing_log) =
                <<Summary(state.successful_responses, state.failed_responses,
                          Len(state.emails))>>
          /\ state.processing_log[Len(state.processing_log)].kind = "summary"
    /\ (Returned /\ HasCounts(result[1])) =>
          /\ SummaryLines(result[1].processing_log) =
                <<Summary(result[1].successful_responses,
                          result[1].failed_responses, result[1].total_emails)>>
          /\ result[1].total_emails = Len(state.emails)
          /\ result[1].successful_responses = state.successful_responses
          /\ result[1].failed_responses = state.failed_responses
          /\ result[1].processing_log = state.processing_log

C8_Witness ==
    /\ Returned
    /\ HasCounts(result[1])
    /\ result[1].successful_responses >= 1
    /\ result[1].failed_responses >= 1
    /\ result[1].total_emails = 2

\* SEND finds no current email or no reply to send.
NothingToSend == state.current_email = None \/ ~Truthy(state.generated_response)

\* C18: in SEND, if no current email or no reply is available, failed_responses
\* increases by exactly 1, successful_responses is unchanged and the transport
\* send operation is not called.
C18_SkippedSend ==
    [][(node = "send_response" /\ NothingToSend) =>
          /\ state'.failed_responses = state.failed_responses + 1
          /\ state'.successful_responses = state.successful_responses
          /\ calls' = calls]_vars

\* SEND has just handled an email for which no reply was generated: the email
\* is counted as failed and the transport was never called.
C18_Witness ==
    /\ visited # <<>>
    /\ visited[Len(visited)].node = "send_response"
    /\ state.current_email # None
    /\ state.generated_response = None
    /\ state.failed_responses = 1
    /\ state.successful_responses = 0
    /\ CallsOf("send_response_email") = <<>>

ScratchEmpty(st) ==
    /\ st.current_email = None
    /\ st.intent = None
    /\ st.relevant_docs = <<>>
    /\ st.generated_response = None
    /\ st.last_error = None

\* C19 as stated: in the state that leaves SEND, current email, intent,
\* fragments, generated reply and per-item error are all empty.
C19_SendClears ==
    [][node = "send_response" => ScratchEmpty(state')]_vars

\* C19: ADVANCE, not SEND, clears the per-item scratch fields: SEND leaves
\* current email, intent, fragments and generated reply as they were, and in the
\* state that leaves ADVANCE current email, intent, fragments, generated reply
\* and per-item error are all empty.
C19_AdvanceClears ==
    [][/\ node = "send_response" =>
            /\ state'.current_email = state.current_email
            /\ state'.intent = state.intent
            /\ state'.relevant_docs = state.relevant_docs
            /\ state'.generated_response = state.generated_response
       /\ node = "next_email" => ScratchEmpty(state')]_vars

\* ADVANCE has just run after a SEND that left an email in place, and the
\* scratch fields are empty.
C19_Witness ==
    /\ Len(visited) >= 2
    /\ visited[Len(visited)].node = "next_email"
    /\ visited[Len(visited) - 1].node = "send_response"
    /\ visited[Len(visited) - 1].email # None
    /\ ScratchEmpty(state)

\* C20: every visit to SEND changes exactly one of the two counters by exactly
\* +1 (succeeded when the transport reports success, failed otherwise, also when
\* the transport raises or the call is skipped) and appends a log line for that
\* outcome to the processing log.
C20_SendCountsAndLogs ==
    [][node = "send_response" =>
          LET sent == /\ calls' # calls
                      /\ calls'[Len(calls')].outcome = "true"
          IN  /\ state'.successful_responses =
                    state.successful_responses + (IF sent THEN 1 ELSE 0)
              /\ state'.failed_responses =
                    state.failed_responses + (IF sent THEN 0 ELSE 1)
              /\ Len(state'.processing_log) = Len(state.processing_log) + 1
              /\ state'.processing_log[Len(state'.processing_log)].kind =
                    (IF sent THEN "sent" ELSE "send_failed")]_vars

\* The step calls the collaborator operation op, and the call raises.
CallRaises(op) ==
    /\ Len(calls') = Len(calls) + 1
    /\ calls'[Len(calls')].op = op
    /\ calls'[Len(calls')].outcome = "raise"

\* The step calls the collaborator operation op, and the call returns.
CallReturns(op) ==
    /\ Len(calls') = Len(calls) + 1
    /\ calls'[Len(calls')].op = op
    /\ calls'[Len(calls')].outcome = "ok"

CountersUnchanged ==
    /\ state'.processed_count = state.processed_count
    /\ state'.successful_responses = state.successful_responses
    /\ state'.failed_responses = state.failed_responses

\* C21: when the Policy Retriever raises during RETRIEVE, the orchestrator
\* substitutes an empty fragment list and intent general, records the error in
\* last_error, and continues to GENERATE for the same item.
C21_RetrieveFailureContinues ==
    [][(node = "retrieve_policies" /\ CallRaises("retrieve_relevant_policies")) =>
          /\ state'.relevant_docs = <<>>
          /\ state'.intent = Some("general")
          /\ state'.last_error = Some("Failed to retrieve policies")
          /\ node' = "generate_response"
          /\ state'.current_email = state.current_email
          /\ state'.current_email # None
          /\ CountersUnchanged]_vars

\* The retriever raised for the second email of a batch, whose first email had
\* fragments and intent billing, and GENERATE is next for the same email.
C21_Witness ==
    /\ node = "generate_response"
    /\ calls[Len(calls)] = Call("retrieve_relevant_policies", 2, "raise")
    /\ \E i \in 1..Len(calls) : calls[i] = Call("retrieve_relevant_policies", 1, "ok")
    /\ state.current_email = Some(EmailData(2))
    /\ state.relevant_docs = <<>>
    /\ state.intent = Some("general")
    /\ state.last_error = Some("Failed to retrieve policies")

\* C22: GENERATE always advances to SEND: when the Response Generator raises or
\* yields no usable reply, the error is recorded in last_error and the next
\* state is still SEND, which sees whatever reply is present (the returned text
\* or none).
C22_GenerateAdvancesToSend ==
    [][node = "generate_response" =>
          /\ node' = "send_response"
          /\ CallRaises("generate_response") =>
                /\ state'.last_error = Some("Failed to generate response")
                /\ state'.generated_response = None
          /\ (CallReturns("generate_response") /\ ~Truthy(state'.generated_response)) =>
                state'.last_error = Some("LLM failed to generate response")
          /\ state'.current_email = state.current_email
          /\ CountersUnchanged]_vars

\* The generator raised for an email and SEND is next, with no reply.
C22_Witness ==
    /\ node = "send_response"
    /\ calls[Len(calls)].op = "generate_response"
    /\ calls[Len(calls)].outcome = "raise"
    /\ state.current_email # None
    /\ state.generated_response = None
    /\ state.last_error = Some("Failed to generate response")

\* C23: PROCESS_ONE selects the email at the current cursor as the current
\* email, and a failure of the mark-as-handled call is not fatal: the current
\* email stays selected, counters are unchanged, and the item proceeds to
\* RETRIEVE.
C23_SelectAtCursor ==
    [][(node = "process_email" /\ state.processed_count < Len(state.emails)) =>
          /\ state'.current_email = Some(state.emails[state.processed_count + 1])
          /\ calls' = Append(calls, calls'[Len(calls')])
          /\ calls'[Len(calls')].op = "mark_as_read"
          /\ calls'[Len(calls')].email =
                state.emails[state.processed_count + 1].message_id
          /\ CountersUnchanged
          /\ state'.emails = state.emails
          /\ node' = "retrieve_policies"]_vars

\* The mark call raised for the second email, which is selected, and RETRIEVE
\* is next.
C23_Witness ==
    /\ node = "retrieve_policies"
    /\ calls[Len(calls)] = Call("mark_as_read", 2, "raise")
    /\ state.processed_count = 1
    /\ state.current_email = Some(EmailData(2))


\* C33: at FINALIZE of any run successful_responses + failed_responses equals
\* the number of fetched emails, and at every earlier state the sum is at most
\* the number of fetched emails: every fetched email is counted exactly once,
\* as succeeded or as failed.
C33_CountedOnce ==
    /\ state.successful_responses + state.failed_responses <= Len(state.emails)
    /\ (node \in {"finalize", "END"})
          => state.successful_responses + state.failed_responses = Len(state.emails)

\* The message ids the transport was asked to answer, in call order.
SendTargets ==
    [i \in DOMAIN CallsOf("send_response_email") |->
        CallsOf("send_response_email")[i].email]

\* C34: the transport send operation is invoked at most once per fetched email
\* in a run, only for the email that is current, only with a non-empty reply,
\* and never for an email that was not in the fetched list; no email receives
\* two replies in one run.
C34_OneSendPerEmail ==
    [][(calls' # calls /\ calls'[Len(calls')].op = "send_response_email") =>
          /\ node = "send_response"
          /\ Len(calls') = Len(calls) + 1
          /\ state.current_email # None
          /\ calls'[Len(calls')].email = state.current_email[1].message_id
          /\ Truthy(state.generated_response)
          /\ \E i \in DOMAIN state.emails :
                /\ state.emails[i] = state.current_email[1]
                /\ i = state.processed_count + 1
          /\ \A i, j \in DOMAIN SendTargets' : i # j => SendTargets'[i] # SendTargets'[j]
          /\ Len(SendTargets') <= Len(state.emails)
      ]_vars

\* Both emails of a batch have been through SEND with a reply, each once, and
\* the run has returned.
C34_Witness ==
    /\ Returned
    /\ Len(state.emails) = 2
    /\ SendTargets = <<state.emails[1].message_id, state.emails[2].message_id>>

\* The emails PROCESS_ONE has selected so far, in the order of selection: the
\* current email after each visit of process_email that found one.
Selected ==
    LET picks == SelectSeq(visited,
                     LAMBDA v : v.node = "process_email" /\ v.email # None)
    IN  [i \in DOMAIN picks |-> picks[i].email[1]]

\* C35: over a run, PROCESS_ONE selects the fetched emails in fetch order, each
\* exactly once: the cursor starts at 0, changes only in ADVANCE and only by
\* +1, and the email list is not modified after FETCH.
C35_CursorWalksTheList ==
    [][/\ (node = "idle") => state.processed_count = 0
       /\ (state'.processed_count # state.processed_count)
            => /\ node = "next_email"
               /\ state'.processed_count = state.processed_count + 1
       /\ (state'.emails # state.emails) => node = "fetch_emails"
       /\ IsPrefix(Selected', state'.emails)
       /\ Len(Selected') <= state'.processed_count + 1
       /\ (node' = "END") => Selected' = state'.emails
      ]_vars

\* A run over two emails has ended: both were selected, in fetch order, and
\* the cursor stands at 2.
C35_Witness ==
    /\ node = "END"
    /\ Len(state.emails) = 2
    /\ Selected = state.emails
    /\ state.emails[1] # state.emails[2]
    /\ state.processed_count = 2

\* How far node n is from the end of its pass through the loop.
StepsLeftInPass(n) ==
    CASE n = "process_email" -> 6
      [] n = "retrieve_policies" -> 5
      [] n = "generate_response" -> 4
      [] n = "send_response" -> 3
      [] n = "next_email" -> 2

\* A bound on the number of steps the run still has to make.
StepsLeft ==
    CASE node = "idle" -> 6 * MaxEmails + 8
      [] node = "fetch_emails" -> 6 * MaxEmails + 7
      [] node = "finalize" -> 2
      [] node \in {"END", "raised"} -> 1
      [] node = "returned" -> 0
      [] OTHER -> 6 * (Len(state.emails) - state.processed_count)
                    + StepsLeftInPass(node)

\* C36: every run terminates: for any finite list of fetched emails and any
\* pattern of collaborator successes and failures the orchestrator reaches
\* FINALIZE and returns a result. In every state that is not the returned one
\* a step is possible (each collaborator call returns or raises), every step
\* lowers StepsLeft, which is never negative, and a run that started returns
\* only after FINALIZE.
C36_RunTerminates ==
    /\ [](StepsLeft >= 0)
    /\ []((node # "returned") => ENABLED Next)
    /\ []((Returned /\ graph) => (visited # <<>> /\ visited[Len(visited)].node = "finalize"))
    /\ [][StepsLeft' < StepsLeft]_vars

\* A run over a full batch, with a collaborator failing on the way, has gone
\* through FINALIZE and returned.
C36_Witness ==
    /\ Returned
    /\ Len(state.emails) = MaxEmails
    /\ visited[Len(visited)].node = "finalize"
    /\ Raised("retrieve_relevant_policies")
    /\ StepsLeft = 0

\* C37: the processing log is append-only within a run: after FETCH has
\* written the first line, every transition leaves the existing log entries
\* unchanged and in order and can only add entries at the end, and the summary
\* line written by FINALIZE is the last entry of the returned log.
C37_LogAppendOnly ==
    [][/\ (node = "fetch_emails") => Len(state'.processing_log) = 1
       /\ (node \notin {"idle", "fetch_emails"})
            => IsPrefix(state.processing_log, state'.processing_log)
       /\ (node = "finalize")
            => /\ Len(state'.processing_log) = Len(state.processing_log) + 1
               /\ state'.processing_log[Len(state'.processing_log)].kind = "summary"
       /\ (result' # None /\ HasCounts(result'[1]))
            => /\ result'[1].processing_log = state'.processing_log
               /\ SummaryLines(result'[1].processing_log)
                    = <<result'[1].processing_log[Len(result'[1].processing_log)]>>
      ]_vars

\* The run has returned a log of several lines: the fetch line first, lines of
\* the items after it, the summary last.
C37_Witness ==
    /\ Returned
    /\ HasCounts(result[1])
    /\ Len(result[1].processing_log) >= 4
    /\ result[1].processing_log[1].kind = "fetched"
    /\ result[1].processing_log[2].kind = "processing"
    /\ result[1].processing_log[Len(result[1].processing_log)].kind = "summary"

(***************************************************************************)
(* Properties of the daemon loop (DaemonSpec)                               *)
(***************************************************************************)
\* An item has begun PROCESS_ONE and has not yet been through SEND.
ItemInProgress ==
    node \in {"retrieve_policies", "generate_response", "send_response"}

\* The step is PROCESS_ONE selecting the next email of the run.
ItemStarts ==
    /\ node = "process_email"
    /\ state.processed_count < Len(state.emails)
    /\ Len(visited') = Len(visited) + 1

\* C32: a graceful-shutdown signal that arrives while a run is in progress is
\* observed only between items: the item that has begun PROCESS_ONE runs on to
\* SEND (or to its failure) before the interruption takes effect, and once the
\* signal has been received (self.running is cleared) no further item of that
\* run is started.
C32_InterruptBetweenItems ==
    [][/\ (node' = "stopped" /\ node # "stopped") => ~ItemInProgress
       /\ ItemInProgress => (node' # "stopped" /\ node' # "idle")
       /\ ~running => ~ItemStarts
      ]_vars

====
